---- MODULE Spec2Model ----
(***************************************************************************)
(* Model of the motorcycle-club backend (FastAPI routers over SQLModel     *)
(* CRUD modules).  The relational store is a set of tables, each a         *)
(* function from the ids of the stored rows to the row; every router       *)
(* handler is one action that runs its CRUD calls to the commit and        *)
(* records the HTTP response.                                              *)
(*                                                                         *)
(* Columns carried per table: the Base columns (id as the function         *)
(* argument, deleted, deleted_at, created_at, updated_at) and the columns  *)
(* the handlers below read or write.  Free-text columns that no handler    *)
(* inspects (description, contact_name, meeting_point, ...) are not        *)
(* carried.                                                                *)
(* The store enforces the declared constraints (unique, foreign key,       *)
(* NOT NULL); a violated constraint is an IntegrityError, which no handler *)
(* catches: the response is 500 and the transaction is rolled back.        *)
(***************************************************************************)
EXTENDS Integers, Sequences, FiniteSets, TLC

\* ---------------------------------------------------------------- bounds
MaxId == 2          \* rows ever inserted per table (id sequence 1..MaxId)
MaxClock == 3       \* clock readings handed out to commits
MaxSkip == 1        \* largest skip a list request carries
MaxLimit == 2       \* largest limit a list request carries
MaxTotal == 5       \* largest total_records fed to the pagination block
MaxRequests == 2    \* requests served at the same time (threadpool workers)

Null == 0           \* Python None: no timestamp, no row, no page

Ids == 1..MaxId
Dates == {1, 2}
Names == {"a", "b"}

VARIABLES
    agreement,      \* table agreement: id -> row
    company,        \* table company:   id -> row
    team,           \* table team:      id -> row
    event,          \* table event:     id -> row
    location,       \* table location:  id -> row
    user,           \* table user:      id -> row
    profile,        \* table profile:   id -> row
    participation,  \* table participation: id -> row
    review,         \* table review:    id -> row
    seq,            \* per table, the last id the store handed out
    now,            \* the clock reading the next commit will see
    response,       \* the last exchange: the request (op, id, hard, sent)
                    \* and the response to it (status, data, pagination)
    page_in,        \* skip, limit, total_records of a pagination computation
    pending         \* per worker, the request it is in the middle of

vars ==
    <<agreement, company, team, event, location, user, profile, participation,
      review, seq, now, response, page_in, pending>>

\* what the handlers of one router family never touch
outside_agreements ==
    <<team, event, location, user, profile, participation, review, page_in,
      pending>>
outside_teams == <<agreement, company, location, user, page_in, pending>>

\* ------------------------------------------------------------- utilities
Lower(s) ==
    CASE s = "A" -> "a"
      [] s = "B" -> "b"
      [] s = "TRUE" -> "true"
      [] s = "True" -> "true"
      [] s = "FALSE" -> "false"
      [] s = "False" -> "false"
      [] OTHER -> s

\* the ids of a table in primary-key order
RECURSIVE ById(_)
ById(S) ==
    IF S = {} THEN <<>>
    ELSE LET m == CHOOSE x \in S : \A y \in S : x <= y
         IN  <<m>> \o ById(S \ {m})

Reverse(s) == [i \in 1..Len(s) |-> s[Len(s) + 1 - i]]

\* mutant: the hard flag is ignored, the row is only marked
Without_marked(table, id) == [table EXCEPT ![id].deleted = TRUE]

Without(table, id) == [i \in DOMAIN table \ {id} |-> table[i]]

\* ------------------------------------------------------- api/models (rows)
\* Base: deleted=False, deleted_at=None, created_at=updated_at=now()
Base(t) ==
    [deleted |-> FALSE, deleted_at |-> Null, created_at |-> t, updated_at |-> t]

Agreement(data, t) ==
    [name |-> data.name, start_date |-> data.start_date,
     end_date |-> data.end_date, active |-> data.active,
     company_id |-> data.company_id] @@ Base(t)

Company(data, t) ==
    [name |-> data.name, contact_telephone |-> data.contact_telephone,
     location_id |-> data.location_id] @@ Base(t)

Team(data, t) ==
    [name |-> data.name, location_id |-> data.location_id] @@ Base(t)

Event(data, t) ==
    [name |-> data.name, team_id |-> data.team_id,
     organizer_id |-> data.organizer_id] @@ Base(t)

User(data, t) == [email |-> data.email] @@ Base(t)

Profile(data, t) ==
    [user_id |-> data.user_id, team_id |-> data.team_id] @@ Base(t)

Participation(data, t) ==
    [attended |-> data.attended, member_id |-> data.member_id,
     event_id |-> data.event_id] @@ Base(t)

Location(data, t) == [name |-> data.name] @@ Base(t)

\* setattr of every field of model_dump(exclude_unset=True); the column
\* updated_at has onupdate=now: it is refreshed when an UPDATE is emitted,
\* that is when some column has a net change
SetAttrs(row, data, t) ==
    LET new == [f \in DOMAIN row |->
                   IF f \in DOMAIN data THEN data[f] ELSE row[f]]
    IN  IF new = row THEN row ELSE [new EXCEPT !.updated_at = t]

SoftDeleted(row, t) ==
    IF row.deleted THEN row
    ELSE [row EXCEPT !.deleted = TRUE, !.updated_at = t]

\* --------------------------------------------------- api/schemas (payloads)
\* mutant: the dates are not compared
check_start_end_dates_any(values) == TRUE

\* check_start_end_dates: both dates given and start after end
check_start_end_dates(values) ==
    ~ ( "start_date" \in DOMAIN values /\ "end_date" \in DOMAIN values
        /\ values.start_date > values.end_date )

AgreementCreate ==
    [name : Names, start_date : Dates, end_date : Dates,
     active : BOOLEAN, company_id : Ids]

\* AgreementUpdate: every field optional; a payload is the record of the
\* fields the request sets
AgreementUpdate ==
    LET N == {[name |-> n] : n \in Names} \cup {<<>>}
        A == {[active |-> b] : b \in BOOLEAN} \cup {<<>>}
        S == {[start_date |-> d] : d \in Dates} \cup {<<>>}
        E == {[end_date |-> d] : d \in Dates} \cup {<<>>}
    IN  {n @@ a @@ s @@ e : n \in N, a \in A, s \in S, e \in E}

\* telephones as written in a request: a mobile number, the same number
\* with separators, and a number that is not a mobile number
Telephones == {"3001234567", "300 123-4567", "6011234567"}

\* re.sub(r'[^\d]', '', telephone)
Digits(telephone) ==
    IF telephone = "300 123-4567" THEN "3001234567" ELSE telephone

\* re.match(r'^3\d{9}$', telephone)
IsMobile(telephone) == telephone = "3001234567"

\* check_telephone and the second pass of CompanyCreate.validate_schema:
\* the payload with the separators of the telephone removed
check_telephone(values) ==
    [f \in DOMAIN values |->
        IF f = "contact_telephone" THEN Digits(values[f]) ELSE values[f]]

CompanyCreate ==
    [name : Names, contact_telephone : Telephones, location_id : Ids]

\* CompanyUpdate: every field optional; it inherits the validator of
\* CompanyCreate, whose second pass calls re.sub on the telephone with no
\* check for None
CompanyUpdate ==
    LET N == {[name |-> n] : n \in Names} \cup {<<>>}
        T == {[contact_telephone |-> t] : t \in Telephones} \cup {<<>>}
    IN  {n @@ t : n \in N, t \in T}

TeamCreate == [name : Names, location_id : Ids]

TeamUpdate == {[name |-> n] : n \in Names} \cup {<<>>}

EventUpdate == {[name |-> n] : n \in Names} \cup {<<>>}

\* ParticipationCreate, ParticipationUpdate: attended is optional and
\* defaults to None.  The nullable boolean is written as its JSON literal.
ParticipationCreate ==
    {[attended |-> a] : a \in {"true", "false"}} \cup {<<>>}

ParticipationUpdate ==
    {[attended |-> a] : a \in {"true", "false"}} \cup {<<>>}

\* data.attended
Attended(data) ==
    IF "attended" \in DOMAIN data THEN data.attended ELSE "null"


\* list requests: the filter query string is a comma-separated sequence of
\* clauses 'field=value' or 'field'; the empty sequence is an absent (or
\* empty) parameter, which the routers pass on as None
Clause(f, v) == [field |-> f, eq |-> TRUE, value |-> v]
Bare(f) == [field |-> f, eq |-> FALSE, value |-> ""]

FilterParams ==
    { <<>>,
      <<Clause("deleted", "true")>>,
      <<Clause("name", "a")>>,
      <<Bare("deleted_at")>>,
      <<Clause("name", "b"), Clause("deleted", "TRUE")>>,
      <<Clause("name", "a"), Clause("name", "b")>>,
      <<Clause("bogus_field", "1")>>,
      <<Clause("name", "a"), Bare("bogus_field"), Clause("other", "1")>> }

SortParams ==
    { <<>>,
      <<Clause("id", "desc")>>,
      <<Clause("bogus_field", "asc")>>,
      <<Bare("id"), Bare("other"), Clause("bogus_field", "desc")>> }

\* the Authorization header of a request: absent, a bearer token that does
\* not decode, and a bearer token signed for an address
Authorizations == {"", "Bearer x", "Bearer signed"}

\* the (skip, limit, sort, filter) of the list requests explored: a sort
\* or a filter, and both when a field of one of them is unknown
UnknownFields == {"bogus_field", "other"}

Fields(query) == {query[i].field : i \in 1..Len(query)}

ListRequests ==
    { r \in [skip : 0..MaxSkip, limit : 0..MaxLimit,
             sort : SortParams, filter : FilterParams] :
        \/ r.sort = <<>>
        \/ r.filter = <<>>
        \/ /\ r.skip = 0 /\ r.limit = MaxLimit
           /\ Fields(r.sort) \cap UnknownFields # {}
           /\ Len(r.filter) = 1 }

\* GET /agreements with nothing in the query string but the page size
PlainList == [skip |-> 0, limit |-> MaxLimit, sort |-> <<>>, filter |-> <<>>]

\* ------------------------------------------------------ api/crud/utils.py
BoolValue(b) == [kind |-> "bool", b |-> b, s |-> ""]
StrValue(s) == [kind |-> "str", b |-> FALSE, s |-> s]

\* parse_filter_param: a dict, so the last clause of a field wins;
\* 'true'/'false' in any case become booleans; a bare field becomes the
\* string 'item exist'
parse_filter_param(query) ==
    LET fields == {query[i].field : i \in 1..Len(query)}
        last(f) == CHOOSE i \in 1..Len(query) :
                      /\ query[i].field = f
                      /\ \A j \in 1..Len(query) : query[j].field = f => j <= i
        parsed(c) ==
            IF c.eq
            THEN IF Lower(c.value) \in {"true", "false"}
                 THEN BoolValue(Lower(c.value) = "true")
                 ELSE StrValue(c.value)
            ELSE StrValue("item exist")
    IN  [f \in fields |-> parsed(query[last(f)])]

\* parse_sort_param: a dict field -> direction, 'asc' for a bare field
parse_sort_param(query) ==
    LET fields == {query[i].field : i \in 1..Len(query)}
        last(f) == CHOOSE i \in 1..Len(query) :
                      /\ query[i].field = f
                      /\ \A j \in 1..Len(query) : query[j].field = f => j <= i
    IN  [f \in fields |->
            IF query[last(f)].eq THEN query[last(f)].value ELSE "asc"]

\* hasattr(model, field) for the columns carried
BoolColumns == {"deleted", "active"}
StrColumns == {"name", "contact_telephone"}
NullableColumns == {"deleted_at"}
Columns(table) ==
    CASE table = "agreement" ->
             {"id", "name", "start_date", "end_date", "active", "company_id",
              "deleted", "deleted_at", "created_at", "updated_at"}
      [] table = "company" ->
             {"id", "name", "contact_telephone", "location_id",
              "deleted", "deleted_at", "created_at", "updated_at"}
      [] table = "team" ->
             {"id", "name", "location_id",
              "deleted", "deleted_at", "created_at", "updated_at"}
      [] OTHER ->
             {"id", "name", "team_id", "organizer_id",
              "deleted", "deleted_at", "created_at", "updated_at"}

\* the fields of a parsed filter or sort that the model does not have
InvalidFields(table, dict) == DOMAIN dict \ Columns(table)

\* the keys of the dict parsed from a query, in insertion order: a field
\* stands where it first occurs
Keys(query) ==
    SelectSeq([i \in 1..Len(query) |->
                  IF \A j \in 1..(i - 1) : query[j].field # query[i].field
                  THEN query[i].field ELSE ""],
              LAMBDA f : f # "")

\* mutant: no field is looked up on the model
Raised_none(table, query) == ""

\* the loop of apply_filters and of apply_sorting: the first key that the
\* model does not have raises HTTPException(400, 'Invalid ... field: key')
\* while the statement is being built; "" when every key is an attribute
Raised(table, query) ==
    LET bad == SelectSeq(Keys(query), LAMBDA f : f \notin Columns(table))
    IN  IF bad = <<>> THEN "" ELSE bad[1]

\* one where-clause of apply_filters on one row
Where(row, field, value) ==
    IF value = StrValue("item exist")
    THEN IF field \in NullableColumns THEN row[field] # Null ELSE TRUE
    ELSE CASE field \in BoolColumns -> value.kind = "bool" /\ row[field] = value.b
           [] field \in StrColumns -> value.kind = "str" /\ row[field] = value.s
           [] OTHER -> FALSE

\* apply_filters: the where-clauses are conjoined
apply_filters(rows, ids, filters) ==
    {i \in ids : \A f \in DOMAIN filters : Where(rows[i], f, filters[f])}

\* apply_sorting on the primary key: 'desc' in any case, else ascending
apply_sorting(ids, sort) ==
    IF "id" \in DOMAIN sort /\ Lower(sort["id"]) = "desc"
    THEN Reverse(ById(ids)) ELSE ById(ids)

\* mutant: a caller-supplied filter replaces the deleted == False scope
Selected_unscoped(rows, filter) ==
    IF DOMAIN filter # {}
    THEN apply_filters(rows, DOMAIN rows, filter)
    ELSE {i \in DOMAIN rows : ~rows[i].deleted}

\* select(...).where(deleted == False) with the optional filter
Selected(rows, filter) ==
    LET active == {i \in DOMAIN rows : ~rows[i].deleted}
    IN  IF DOMAIN filter # {}
        THEN apply_filters(rows, active, filter) ELSE active

Ordered(ids, sort) ==
    IF DOMAIN sort # {} THEN apply_sorting(ids, sort) ELSE ById(ids)

Offset(s, skip) == SubSeq(s, skip + 1, Len(s))
Limit(s, limit) == SubSeq(s, 1, IF limit < Len(s) THEN limit ELSE Len(s))

\* ------------------------------------------------ routers: pagination block
\* mutant: total_pages by floor division plus one
Pagination_floor(skip, limit, total_records) ==
    LET current_page == IF limit # 0 THEN (skip \div limit) + 1 ELSE 1
        total_pages == IF limit # 0 THEN (total_records \div limit) + 1 ELSE 1
        next_page == IF current_page < total_pages
                     THEN current_page + 1 ELSE Null
        prev_page == IF current_page > 1 THEN current_page - 1 ELSE Null
    IN  [total_records |-> total_records, per_page |-> limit,
         current_page |-> current_page, total_pages |-> total_pages,
         next_page |-> next_page, prev_page |-> prev_page]

\* mutant: the last page still announces a next page
Pagination_next(skip, limit, total_records) ==
    LET current_page == IF limit # 0 THEN (skip \div limit) + 1 ELSE 1
        total_pages == IF limit # 0
                       THEN (total_records + limit - 1) \div limit ELSE 1
        next_page == IF current_page <= total_pages
                     THEN current_page + 1 ELSE Null
        prev_page == IF current_page > 1 THEN current_page - 1 ELSE Null
    IN  [total_records |-> total_records, per_page |-> limit,
         current_page |-> current_page, total_pages |-> total_pages,
         next_page |-> next_page, prev_page |-> prev_page]

\* current_page, total_pages, next_page, prev_page as every list router
\* computes them; None is Null
Pagination(skip, limit, total_records) ==
    LET current_page == IF limit # 0 THEN (skip \div limit) + 1 ELSE 1
        total_pages == IF limit # 0
                       THEN (total_records + limit - 1) \div limit ELSE 1
        next_page == IF current_page < total_pages
                     THEN current_page + 1 ELSE Null
        prev_page == IF current_page > 1 THEN current_page - 1 ELSE Null
    IN  [total_records |-> total_records, per_page |-> limit,
         current_page |-> current_page, total_pages |-> total_pages,
         next_page |-> next_page, prev_page |-> prev_page]

NoPagination ==
    [total_records |-> 0, per_page |-> 0, current_page |-> 0,
     total_pages |-> 0, next_page |-> Null, prev_page |-> Null]

\* ------------------------------------------------------------- responses
\* detail: the field an error names; queries: the statements the handler
\* executed against the store with session.exec, in order
Reply(op, id, status) ==
    [op |-> op, id |-> id, status |-> status, hard |-> FALSE, sent |-> <<>>,
     data |-> <<>>, pagination |-> NoPagination, detail |-> "",
     queries |-> <<>>]

\* the answer to an update request that carried the payload sent
Updated(op, id, sent, status) == [Reply(op, id, status) EXCEPT !.sent = sent]

\* the answer to a create request that carried the payload sent
Created(op, id, sent, status) == [Reply(op, id, status) EXCEPT !.sent = sent]

\* the envelope {data, pagination} of a list request
Page(op, sent, data, pagination) ==
    [op |-> op, id |-> Null, status |-> 200, hard |-> FALSE, sent |-> sent,
     data |-> data, pagination |-> pagination, detail |-> "",
     queries |-> <<"count", "list">>]

\* the 400 of a list request: the field named, and the statements that
\* had been executed when the exception was raised
Invalid(op, sent, field, queries) ==
    [Reply(op, Null, 400) EXCEPT
        !.sent = sent, !.detail = field, !.queries = queries]

NoResponse == Reply("none", Null, 0)

\* ------------------------------------------------- api/crud/agreements.py
\* mutant: the deleted flag is not looked at
get_agreement_by_id_stored(id) ==
    IF id \in DOMAIN agreement THEN id ELSE Null

get_agreement_by_id(id) ==
    IF id \in DOMAIN agreement /\ ~agreement[id].deleted THEN id ELSE Null

get_agreement_by_name(name) ==
    {i \in DOMAIN agreement :
        Lower(agreement[i].name) = Lower(name) /\ ~agreement[i].deleted}

count_agreements(filter) == Cardinality(Selected(agreement, filter))

\* offset and limit are applied only when truthy
list_agreements_rows(skip, limit, sort, filter) ==
    LET q == Ordered(Selected(agreement, filter), sort)
        o == IF skip # 0 THEN Offset(q, skip) ELSE q
    IN  IF limit # 0 THEN Limit(o, limit) ELSE o

\* mutant: the deleted flag is not looked at
get_company_by_id_stored(id) == IF id \in DOMAIN company THEN id ELSE Null

get_company_by_id(id) ==
    IF id \in DOMAIN company /\ ~company[id].deleted THEN id ELSE Null

get_company_by_name(name) ==
    {i \in DOMAIN company : company[i].name = name /\ ~company[i].deleted}

count_companies(filter) == Cardinality(Selected(company, filter))

\* offset and limit are applied whenever they are not None
list_companies_rows(skip, limit, sort, filter) ==
    Limit(Offset(Ordered(Selected(company, filter), sort), skip), limit)

\* the constraints of the tables: unique name, foreign key to company
UniqueName(table, id, name) ==
    \A i \in DOMAIN table \ {id} : table[i].name # name

AgreementIntegrity(id, row) ==
    UniqueName(agreement, id, row.name) /\ row.company_id \in DOMAIN company

CompanyIntegrity(id, row) ==
    UniqueName(company, id, row.name) /\ row.location_id \in DOMAIN location

\* session.delete(company): the agreements of the company get
\* company_id = NULL, which the NOT NULL column refuses
CompanyDeletable(id) ==
    \A i \in DOMAIN agreement : agreement[i].company_id # id

Tick == now' = now + 1
InTime == now <= MaxClock

\* ------------------------------------------ api/routers/agreements.py
\* Every handler below is the router function together with the CRUD
\* function it calls.

\* POST /agreements
create_agreement(data) ==
    LET id == seq["agreement"] + 1
        row == Agreement(data, now)
    IN  /\ UNCHANGED <<company, outside_agreements>>
        /\ IF ~check_start_end_dates(data)
           THEN /\ response' = Created("create_agreement", Null, data, 422)
                /\ UNCHANGED <<agreement, seq, now>>
           ELSE IF get_agreement_by_name(data.name) # {}
           THEN /\ response' = Created("create_agreement", Null, data, 409)
                /\ UNCHANGED <<agreement, seq, now>>
           ELSE IF ~AgreementIntegrity(Null, row)
           THEN /\ response' = Created("create_agreement", Null, data, 500)
                /\ UNCHANGED <<agreement, seq, now>>
           ELSE /\ id <= MaxId /\ InTime
                /\ agreement' = agreement @@ (id :> row)
                /\ seq' = [seq EXCEPT !["agreement"] = id]
                /\ Tick
                /\ response' = Created("create_agreement", id, data, 201)

\* GET /agreements/{agreement_id}
get_agreement(id) ==
    /\ UNCHANGED <<agreement, company, seq, now, outside_agreements>>
    /\ response' = Reply("get_agreement", id,
                         IF get_agreement_by_id(id) # Null THEN 200 ELSE 404)

\* PUT /agreements/{agreement_id}: crud.update_agreement looks the row up
\* with session.get, whatever its deleted flag
update_agreement(id, data) ==
    /\ UNCHANGED <<company, seq, outside_agreements>>
    /\ IF ~check_start_end_dates(data)
       THEN /\ response' = Updated("update_agreement", id, data, 422)
            /\ UNCHANGED <<agreement, now>>
       ELSE IF id \notin DOMAIN agreement
       THEN /\ response' = Updated("update_agreement", id, data, 404)
            /\ UNCHANGED <<agreement, now>>
       ELSE LET row == SetAttrs(agreement[id], data, now)
            IN  IF ~AgreementIntegrity(id, row)
                THEN /\ response' = Updated("update_agreement", id, data, 500)
                     /\ UNCHANGED <<agreement, now>>
                ELSE IF row = agreement[id]
                THEN /\ response' = Updated("update_agreement", id, data, 200)
                     /\ UNCHANGED <<agreement, now>>
                ELSE /\ InTime
                     /\ agreement' = [agreement EXCEPT ![id] = row]
                     /\ Tick
                     /\ response' = Updated("update_agreement", id, data, 200)

\* DELETE /agreements/{agreement_id}?hard=
delete_agreement(id, hard) ==
    /\ UNCHANGED <<company, seq, outside_agreements>>
    /\ IF get_agreement_by_id(id) = Null
       THEN /\ response' = [Reply("delete_agreement", id, 404)
                               EXCEPT !.hard = hard]
            /\ UNCHANGED <<agreement, now>>
       ELSE /\ InTime
            /\ agreement' = IF hard THEN Without(agreement, id)
                            ELSE [agreement EXCEPT
                                    ![id] = SoftDeleted(agreement[id], now)]
            /\ Tick
            /\ response' = [Reply("delete_agreement", id, 204)
                               EXCEPT !.hard = hard]

\* GET /agreements?skip=&limit=&sort=&filter= with the Authorization header
\* of the request: the route declares no dependency that reads it
list_agreements(authorization, skip, limit, sort, filter) ==
    LET sort_dict == parse_sort_param(sort)
        filter_dict == parse_filter_param(filter)
        sent == [authorization |-> authorization, skip |-> skip,
                 limit |-> limit, sort |-> sort, filter |-> filter]
    IN  /\ UNCHANGED <<agreement, company, seq, now, outside_agreements>>
        /\ IF Raised("agreement", filter) # ""
           THEN \* crud.count_*: apply_filters raises before session.exec
                response' = Invalid("list_agreements", sent,
                                    Raised("agreement", filter), <<>>)
           ELSE IF Raised("agreement", sort) # ""
           THEN \* the count has run; crud.list_*: apply_sorting raises
                response' = Invalid("list_agreements", sent,
                                    Raised("agreement", sort), <<"count">>)
           ELSE response' =
                  Page("list_agreements", sent,
                       list_agreements_rows(skip, limit, sort_dict, filter_dict),
                       Pagination(skip, limit, count_agreements(filter_dict)))

\* POST /companies
create_company(data) ==
    LET id == seq["company"] + 1
        row == Company(check_telephone(data), now)
    IN  /\ UNCHANGED <<agreement, outside_agreements>>
        /\ IF ~IsMobile(Digits(data.contact_telephone))
           THEN /\ response' = Created("create_company", Null, data, 422)
                /\ UNCHANGED <<company, seq, now>>
           ELSE IF get_company_by_name(data.name) # {}
           THEN /\ response' = Created("create_company", Null, data, 409)
                /\ UNCHANGED <<company, seq, now>>
           ELSE IF ~CompanyIntegrity(Null, row)
           THEN /\ response' = Created("create_company", Null, data, 500)
                /\ UNCHANGED <<company, seq, now>>
           ELSE /\ id <= MaxId /\ InTime
                /\ company' = company @@ (id :> row)
                /\ seq' = [seq EXCEPT !["company"] = id]
                /\ Tick
                /\ response' = Created("create_company", id, data, 201)

\* GET /companies/{company_id}
get_company(id) ==
    /\ UNCHANGED <<agreement, company, seq, now, outside_agreements>>
    /\ response' = Reply("get_company", id,
                         IF get_company_by_id(id) # Null THEN 200 ELSE 404)

\* PUT /companies/{company_id}
\* a payload without contact_telephone is a TypeError in the validator,
\* which is not a validation error: the response is 500
update_company(id, data) ==
    /\ UNCHANGED <<agreement, seq, outside_agreements>>
    /\ IF "contact_telephone" \notin DOMAIN data
       THEN /\ response' = Updated("update_company", id, data, 500)
            /\ UNCHANGED <<company, now>>
       ELSE IF ~IsMobile(Digits(data.contact_telephone))
       THEN /\ response' = Updated("update_company", id, data, 422)
            /\ UNCHANGED <<company, now>>
       ELSE IF id \notin DOMAIN company
       THEN /\ response' = Updated("update_company", id, data, 404)
            /\ UNCHANGED <<company, now>>
       ELSE LET row == SetAttrs(company[id], check_telephone(data), now)
            IN  IF ~CompanyIntegrity(id, row)
                THEN /\ response' = Updated("update_company", id, data, 500)
                     /\ UNCHANGED <<company, now>>
                ELSE IF row = company[id]
                THEN /\ response' = Updated("update_company", id, data, 200)
                     /\ UNCHANGED <<company, now>>
                ELSE /\ InTime
                     /\ company' = [company EXCEPT ![id] = row]
                     /\ Tick
                     /\ response' = Updated("update_company", id, data, 200)

\* DELETE /companies/{company_id}?hard=
delete_company(id, hard) ==
    /\ UNCHANGED <<agreement, seq, outside_agreements>>
    /\ IF get_company_by_id(id) = Null
       THEN /\ response' = [Reply("delete_company", id, 404)
                               EXCEPT !.hard = hard]
            /\ UNCHANGED <<company, now>>
       ELSE IF hard /\ ~CompanyDeletable(id)
       THEN /\ response' = [Reply("delete_company", id, 500)
                               EXCEPT !.hard = hard]
            /\ UNCHANGED <<company, now>>
       ELSE /\ InTime
            /\ company' = IF hard THEN Without(company, id)
                          ELSE [company EXCEPT
                                  ![id] = SoftDeleted(company[id], now)]
            /\ Tick
            /\ response' = [Reply("delete_company", id, 204)
                               EXCEPT !.hard = hard]

\* GET /companies/{company_id}/agreements: the relationship
\* company.agreements, loaded by the foreign key alone
get_company_agreements(id) ==
    /\ UNCHANGED <<agreement, company, seq, now, outside_agreements>>
    /\ response' =
          IF get_company_by_id(id) = Null
          THEN Reply("get_company_agreements", id, 404)
          ELSE [Reply("get_company_agreements", id, 200) EXCEPT
                   !.data = ById({i \in DOMAIN agreement :
                                     agreement[i].company_id = id})]

\* GET /companies?skip=&limit=&sort=&filter=
list_companies(skip, limit, sort, filter) ==
    LET sort_dict == parse_sort_param(sort)
        filter_dict == parse_filter_param(filter)
        sent == [skip |-> skip, limit |-> limit,
                 sort |-> sort, filter |-> filter]
    IN  /\ UNCHANGED <<agreement, company, seq, now, outside_agreements>>
        /\ IF Raised("company", filter) # ""
           THEN \* crud.count_*: apply_filters raises before session.exec
                response' = Invalid("list_companies", sent,
                                    Raised("company", filter), <<>>)
           ELSE IF Raised("company", sort) # ""
           THEN \* the count has run; crud.list_*: apply_sorting raises
                response' = Invalid("list_companies", sent,
                                    Raised("company", sort), <<"count">>)
           ELSE response' =
                  Page("list_companies", sent,
                       list_companies_rows(skip, limit, sort_dict, filter_dict),
                       Pagination(skip, limit, count_companies(filter_dict)))

\* ------------------------------------------------------- specification
NoPageIn == [skip |-> 0, limit |-> 0, total_records |-> 0]

\* the workers that serve requests, and a worker between requests
Workers == 1..MaxRequests
Idle == [op |-> "none"]
NoPending == [w \in Workers |-> Idle]

\* the id sequences of an empty store
NoRows ==
    [agreement |-> 0, company |-> 0, team |-> 0, event |-> 0,
     participation |-> 0, review |-> 0]

Empty == <<>>

Init ==
    /\ agreement = Empty /\ company = Empty
    /\ team = Empty /\ event = Empty
    /\ location = (1 :> Location([name |-> "a"], 1))
    /\ user = Empty /\ profile = Empty /\ participation = Empty /\ review = Empty
    /\ seq = NoRows
    /\ now = 1
    /\ response = NoResponse
    /\ page_in = NoPageIn
    /\ pending = NoPending

\* The agreement and company routers over a store with one location and
\* nothing else.  Date ranges are explored as one valid and one invalid
\* range, telephones with separators in one request of each kind.
CreateInputs == {d \in AgreementCreate : d.active /\ d.end_date = 1}

CompanyInputs ==
    {d \in CompanyCreate :
        \/ d.contact_telephone = "3001234567"
        \/ d.name = "a" /\ d.location_id = 1}

CompanyChanges ==
    {d \in CompanyUpdate :
        \/ "contact_telephone" \notin DOMAIN d
        \/ d.contact_telephone = "3001234567"
        \/ "name" \notin DOMAIN d}

UpdateInputs ==
    {d \in AgreementUpdate :
        \/ DOMAIN d \subseteq {"name", "active"}
        \/ d = [start_date |-> 2, end_date |-> 1]
        \/ d = [start_date |-> 2]}

Next ==
    \/ \E data \in CreateInputs : create_agreement(data)
    \/ \E id \in Ids : get_agreement(id)
    \/ \E id \in Ids, data \in UpdateInputs : update_agreement(id, data)
    \/ \E id \in Ids, hard \in BOOLEAN : delete_agreement(id, hard)
    \/ \E r \in ListRequests, authorization \in Authorizations :
            /\ authorization = "" \/ r = PlainList
            /\ list_agreements(authorization, r.skip, r.limit, r.sort, r.filter)
    \/ \E data \in CompanyInputs : create_company(data)
    \/ \E id \in Ids : get_company(id)
    \/ \E id \in Ids, data \in CompanyChanges : update_company(id, data)
    \/ \E id \in Ids, hard \in BOOLEAN : delete_company(id, hard)
    \/ \E r \in ListRequests :
            list_companies(r.skip, r.limit, r.sort, r.filter)
    \/ \E id \in Ids : get_company_agreements(id)

Spec == Init /\ [][Next]_vars

\* ------------------- api/crud/teams.py, api/crud/events.py, api/crud/users.py
get_team_by_id(id) ==
    IF id \in DOMAIN team /\ ~team[id].deleted THEN id ELSE Null

get_team_by_name(name) ==
    {i \in DOMAIN team : team[i].name = name /\ ~team[i].deleted}

get_location_by_id(id) ==
    IF id \in DOMAIN location /\ ~location[id].deleted THEN id ELSE Null

get_event_by_id(id) ==
    IF id \in DOMAIN event /\ ~event[id].deleted THEN id ELSE Null

get_user_by_id(id) ==
    IF id \in DOMAIN user /\ ~user[id].deleted THEN id ELSE Null

\* user.profile: the one profile row that refers to the user, or None
ProfileOf(user_id) ==
    LET P == {i \in DOMAIN profile : profile[i].user_id = user_id}
    IN  IF P = {} THEN Null ELSE CHOOSE i \in P : \A j \in P : i <= j

\* crud.get_participation: the row of the pair; the deleted flag is not
\* part of the query
get_participation_row(profile_id, event_id) ==
    LET P == {i \in DOMAIN participation :
                 /\ participation[i].member_id = profile_id
                 /\ participation[i].event_id = event_id}
    IN  IF P = {} THEN Null ELSE CHOOSE i \in P : \A j \in P : i <= j

TeamIntegrity(id, row) ==
    UniqueName(team, id, row.name) /\ row.location_id \in DOMAIN location

\* Relationships declared with cascade_delete: session.delete loads the
\* collection, whatever the deleted flag of its rows, and deletes every row
\* of it, and so on down the relationships of the deleted rows.
\* mutant: Team.members without cascade_delete
CascadeMembers_kept(team_id) == {}

\* Team.members
CascadeMembers(team_id) == {i \in DOMAIN profile : profile[i].team_id = team_id}

\* Team.events and Profile.organized_events
CascadeEvents(team_id) ==
    {i \in DOMAIN event : \/ event[i].team_id = team_id
                          \/ event[i].organizer_id \in CascadeMembers(team_id)}

\* Event.members and Profile.attended_events
CascadeParticipations(events, members) ==
    {i \in DOMAIN participation : \/ participation[i].event_id \in events
                                  \/ participation[i].member_id \in members}

\* Event.reviews and Profile.reviews
CascadeReviews(events, members) ==
    {i \in DOMAIN review : \/ review[i].event_id \in events
                           \/ review[i].author_id \in members}

Rest(table, gone) == [i \in DOMAIN table \ gone |-> table[i]]

\* ------------------------------- api/routers/teams.py, api/routers/events.py
\* POST /teams
create_team(data) ==
    LET id == seq["team"] + 1
        row == Team(data, now)
    IN  /\ UNCHANGED <<event, profile, participation, review, outside_teams>>
        /\ IF get_team_by_name(data.name) # {}
           THEN /\ response' = Created("create_team", Null, data, 409)
                /\ UNCHANGED <<team, seq, now>>
           ELSE IF get_location_by_id(data.location_id) = Null
           THEN /\ response' = Created("create_team", Null, data, 404)
                /\ UNCHANGED <<team, seq, now>>
           ELSE IF ~TeamIntegrity(Null, row)
           THEN /\ response' = Created("create_team", Null, data, 500)
                /\ UNCHANGED <<team, seq, now>>
           ELSE /\ id <= MaxId /\ InTime
                /\ team' = team @@ (id :> row)
                /\ seq' = [seq EXCEPT !["team"] = id]
                /\ Tick
                /\ response' = Created("create_team", id, data, 201)

\* GET /teams/{team_id}
get_team(id) ==
    /\ UNCHANGED <<team, event, profile, participation, seq, now,
                   review, outside_teams>>
    /\ response' = Reply("get_team", id,
                         IF get_team_by_id(id) # Null THEN 200 ELSE 404)

\* PUT /teams/{team_id}
update_team(id, data) ==
    /\ UNCHANGED <<event, profile, participation, seq, review, outside_teams>>
    /\ IF id \notin DOMAIN team
       THEN /\ response' = Updated("update_team", id, data, 404)
            /\ UNCHANGED <<team, now>>
       ELSE LET row == SetAttrs(team[id], data, now)
            IN  IF ~TeamIntegrity(id, row)
                THEN /\ response' = Updated("update_team", id, data, 500)
                     /\ UNCHANGED <<team, now>>
                ELSE IF row = team[id]
                THEN /\ response' = Updated("update_team", id, data, 200)
                     /\ UNCHANGED <<team, now>>
                ELSE /\ InTime
                     /\ team' = [team EXCEPT ![id] = row]
                     /\ Tick
                     /\ response' = Updated("update_team", id, data, 200)

\* DELETE /teams/{team_id}?hard=
delete_team(id, hard) ==
    /\ UNCHANGED <<seq, outside_teams>>
    /\ IF get_team_by_id(id) = Null
       THEN /\ response' = Reply("delete_team", id, 404)
            /\ UNCHANGED <<team, event, profile, participation, review, now>>
       ELSE /\ InTime
            /\ IF hard
               THEN /\ team' = Without(team, id)
                    /\ profile' = Rest(profile, CascadeMembers(id))
                    /\ event' = Rest(event, CascadeEvents(id))
                    /\ participation' =
                          Rest(participation,
                               CascadeParticipations(CascadeEvents(id),
                                                     CascadeMembers(id)))
                    /\ review' =
                          Rest(review, CascadeReviews(CascadeEvents(id),
                                                      CascadeMembers(id)))
               ELSE /\ team' = [team EXCEPT ![id] = SoftDeleted(team[id], now)]
                    /\ UNCHANGED <<event, profile, participation, review>>
            /\ Tick
            /\ response' = [Reply("delete_team", id, 204) EXCEPT !.hard = hard]

\* GET /events/{event_id}
get_event(id) ==
    /\ UNCHANGED <<team, event, profile, participation, seq, now,
                   review, outside_teams>>
    /\ response' = Reply("get_event", id,
                         IF get_event_by_id(id) # Null THEN 200 ELSE 404)

\* PUT /events/{event_id}
update_event(id, data) ==
    /\ UNCHANGED <<team, profile, participation, seq, review, outside_teams>>
    /\ IF id \notin DOMAIN event
       THEN /\ response' = Updated("update_event", id, data, 404)
            /\ UNCHANGED <<event, now>>
       ELSE LET row == SetAttrs(event[id], data, now)
            IN  IF row = event[id]
                THEN /\ response' = Updated("update_event", id, data, 200)
                     /\ UNCHANGED <<event, now>>
                ELSE /\ InTime
                     /\ event' = [event EXCEPT ![id] = row]
                     /\ Tick
                     /\ response' = Updated("update_event", id, data, 200)

\* DELETE /events/{event_id}?hard=
delete_event(id, hard) ==
    /\ UNCHANGED <<team, profile, seq, outside_teams>>
    /\ IF get_event_by_id(id) = Null
       THEN /\ response' = Reply("delete_event", id, 404)
            /\ UNCHANGED <<event, participation, review, now>>
       ELSE /\ InTime
            /\ IF hard
               THEN /\ event' = Without(event, id)
                    /\ participation' =
                          Rest(participation, CascadeParticipations({id}, {}))
                    /\ review' = Rest(review, CascadeReviews({id}, {}))
               ELSE /\ event' = [event EXCEPT
                                   ![id] = SoftDeleted(event[id], now)]
                    /\ UNCHANGED <<participation, review>>
            /\ Tick
            /\ response' = [Reply("delete_event", id, 204) EXCEPT !.hard = hard]

\* the exchange of a participation endpoint: the pair of the path, and the
\* id of the row the pair resolved to
Pair(op, event_id, user_id, id, status) ==
    [Reply(op, id, status) EXCEPT
        !.sent = [event_id |-> event_id, user_id |-> user_id]]

\* serialisation as ParticipationRead, whose attended is a bool: a row
\* with attended = None fails the validation of the response (500)
Readable(rows) == \A r \in rows : r.attended # "null"

\* POST /events/{event_id}/users/{user_id}/participations
\* the response is event.members, the new row included
create_participation(event_id, user_id, data) ==
    LET id == seq["participation"] + 1
        op == "create_participation"
        member == ProfileOf(user_id)
        row == Participation([attended |-> Attended(data),
                              member_id |-> member,
                              event_id |-> event_id], now)
        members == {participation[i] : i \in {j \in DOMAIN participation :
                        participation[j].event_id = event_id}} \cup {row}
    IN  /\ UNCHANGED <<team, event, profile, review, outside_teams>>
        /\ IF get_event_by_id(event_id) = Null \/ get_user_by_id(user_id) = Null
           THEN /\ response' = Pair(op, event_id, user_id, Null, 404)
                /\ UNCHANGED <<participation, seq, now>>
           ELSE IF member = Null
           THEN /\ response' = Pair(op, event_id, user_id, Null, 500)
                /\ UNCHANGED <<participation, seq, now>>
           ELSE IF get_participation_row(member, event_id) # Null
           THEN /\ response' = Pair(op, event_id, user_id, Null, 400)
                /\ UNCHANGED <<participation, seq, now>>
           ELSE /\ id <= MaxId /\ InTime
                /\ participation' = participation @@ (id :> row)
                /\ seq' = [seq EXCEPT !["participation"] = id]
                /\ Tick
                /\ response' = Pair(op, event_id, user_id, id,
                                    IF Readable(members) THEN 200 ELSE 500)

\* GET /events/{event_id}/users/{user_id}/participations
\* the handler dereferences user.profile.id with no check of the user or
\* of the event: an absent user or profile is an AttributeError (500)
get_participation(event_id, user_id) ==
    LET op == "get_participation"
        member == ProfileOf(user_id)
        id == get_participation_row(member, event_id)
    IN  /\ UNCHANGED <<team, event, profile, participation, seq, now,
                       review, outside_teams>>
        /\ response' =
              IF get_user_by_id(user_id) = Null \/ member = Null
              THEN Pair(op, event_id, user_id, Null, 500)
              ELSE IF id = Null
              THEN Pair(op, event_id, user_id, Null, 404)
              ELSE Pair(op, event_id, user_id, id,
                        IF Readable({participation[id]}) THEN 200 ELSE 500)

\* PUT /events/{event_id}/users/{user_id}/participations
\* crud.update_participation assigns data.attended, set or not; the
\* response model is the table model, which admits attended = None
update_participation(event_id, user_id, data) ==
    LET op == "update_participation"
        member == ProfileOf(user_id)
        id == get_participation_row(member, event_id)
    IN  /\ UNCHANGED <<team, event, profile, seq, review, outside_teams>>
        /\ IF get_user_by_id(user_id) = Null \/ member = Null
           THEN /\ response' = Updated(op, Null, data, 500)
                /\ UNCHANGED <<participation, now>>
           ELSE IF id = Null
           THEN /\ response' = Updated(op, Null, data, 404)
                /\ UNCHANGED <<participation, now>>
           ELSE LET row == SetAttrs(participation[id],
                                    [attended |-> Attended(data)], now)
                IN  IF row = participation[id]
                    THEN /\ response' = Updated(op, id, data, 200)
                         /\ UNCHANGED <<participation, now>>
                    ELSE /\ InTime
                         /\ participation' = [participation EXCEPT ![id] = row]
                         /\ Tick
                         /\ response' = Updated(op, id, data, 200)

\* DELETE /events/{event_id}/users/{user_id}/participations?hard=
remove_user_from_event(event_id, user_id, hard) ==
    LET op == "remove_user_from_event"
        member == ProfileOf(user_id)
        id == get_participation_row(member, event_id)
    IN  /\ UNCHANGED <<team, event, profile, seq, review, outside_teams>>
        /\ IF get_event_by_id(event_id) = Null \/ get_user_by_id(user_id) = Null
           THEN /\ response' = Pair(op, event_id, user_id, Null, 404)
                /\ UNCHANGED <<participation, now>>
           ELSE IF member = Null
           THEN /\ response' = Pair(op, event_id, user_id, Null, 500)
                /\ UNCHANGED <<participation, now>>
           ELSE IF id = Null
           THEN /\ response' = Pair(op, event_id, user_id, Null, 404)
                /\ UNCHANGED <<participation, now>>
           ELSE IF ~hard /\ participation[id].deleted
           THEN /\ response' = Pair(op, event_id, user_id, id, 204)
                /\ UNCHANGED <<participation, now>>
           ELSE /\ InTime
                /\ participation' =
                      IF hard THEN Without(participation, id)
                      ELSE [participation EXCEPT
                              ![id] = SoftDeleted(participation[id], now)]
                /\ Tick
                /\ response' = [Pair(op, event_id, user_id, id, 204)
                                   EXCEPT !.hard = hard]

\* The team, event and participation routers over a seeded store
\* (tests/conftest.py inserts locations, teams, users, profiles, events and
\* participations before any request): one location, one or two teams, two
\* users with a profile each, up to two events and at most one
\* participation, all inserted at clock reading 1.  POST /events is not
\* part of this specification.
SeedNames == <<"a", "b">>

TeamInit ==
    /\ agreement = Empty /\ company = Empty /\ review = Empty
    /\ location = (1 :> Location([name |-> "a"], 1))
    /\ user = [i \in 1..2 |-> User([email |-> SeedNames[i]], 1)]
    /\ \E n \in 1..2 :
         /\ team = [i \in 1..n |->
                      Team([name |-> SeedNames[i], location_id |-> 1], 1)]
         /\ profile = [i \in 1..2 |->
                         Profile([user_id |-> i,
                                  team_id |-> IF i = 1 THEN 1 ELSE n], 1)]
         /\ \E m \in 0..2 : \E owner \in [1..m -> 1..n] :
              /\ event = [i \in 1..m |->
                            Event([name |-> "a", team_id |-> owner[i],
                                   organizer_id |-> i], 1)]
              /\ \E k \in 0..(IF m = 0 THEN 0 ELSE 1) :
                    /\ participation =
                          [i \in 1..k |->
                              Participation([attended |-> "false",
                                             member_id |-> 2,
                                             event_id |-> 1], 1)]
                    /\ seq = [agreement |-> 0, company |-> 0, team |-> n,
                              event |-> m, participation |-> k,
                              review |-> 0]
    /\ now = 2
    /\ response = NoResponse
    /\ page_in = NoPageIn
    /\ pending = NoPending

TeamNext ==
    \/ \E data \in TeamCreate : create_team(data)
    \/ \E id \in Ids : get_team(id)
    \/ \E id \in Ids, data \in TeamUpdate : update_team(id, data)
    \/ \E id \in Ids, hard \in BOOLEAN : delete_team(id, hard)
    \/ \E id \in Ids : get_event(id)
    \/ \E id \in Ids, data \in EventUpdate : update_event(id, data)
    \/ \E id \in Ids, hard \in BOOLEAN : delete_event(id, hard)
    \/ \E e \in Ids, u \in Ids, data \in ParticipationCreate :
            create_participation(e, u, data)
    \/ \E e \in Ids, u \in Ids : get_participation(e, u)
    \/ \E e \in Ids, u \in Ids, data \in ParticipationUpdate :
            update_participation(e, u, data)
    \/ \E e \in Ids, u \in Ids, hard \in BOOLEAN :
            remove_user_from_event(e, u, hard)

TeamSpec == TeamInit /\ [][TeamNext]_vars

\* The pagination block on its own: any skip, limit and total_records
PageInit ==
    /\ agreement = Empty /\ company = Empty
    /\ team = Empty /\ event = Empty /\ location = Empty
    /\ user = Empty /\ profile = Empty /\ participation = Empty /\ review = Empty
    /\ seq = NoRows
    /\ now = 1
    /\ response = NoResponse
    /\ page_in = NoPageIn
    /\ pending = NoPending

paginate ==
    /\ page_in' \in [skip : 0..MaxTotal, limit : 0..MaxLimit + 1,
                     total_records : 0..MaxTotal]
    /\ response' = Page("paginate", <<>>, <<>>,
                        Pagination(page_in'.skip, page_in'.limit,
                                   page_in'.total_records))
    /\ UNCHANGED <<agreement, company, team, event, location, user, profile,
                   participation, review, seq, now, pending>>

PageNext == paginate

PageSpec == PageInit /\ [][PageNext]_vars

\* ------------------------------------------- requests served concurrently
\* The handlers are plain functions: FastAPI runs each request on a worker
\* of its threadpool with a session of its own, so the statements of two
\* requests interleave.  A handler is split where it issues a statement
\* after a decision taken on an earlier one.

\* mutant: the table has no constraint
ParticipationIntegrity_unconstrained(row) == TRUE

\* the INSERT into participation: uq_participation_member_event and the
\* two foreign keys
ParticipationIntegrity(row) ==
    /\ get_participation_row(row.member_id, row.event_id) = Null
    /\ row.member_id \in DOMAIN profile
    /\ row.event_id \in DOMAIN event

\* POST /events/{event_id}/users/{user_id}/participations, up to the
\* decision taken on crud.get_participation
create_participation_lookup(w, event_id, user_id, data) ==
    LET op == "create_participation"
        member == ProfileOf(user_id)
    IN  /\ pending[w] = Idle
        /\ UNCHANGED <<agreement, company, team, event, location, user,
                       profile, participation, review, seq, now, page_in>>
        /\ IF get_event_by_id(event_id) = Null \/ get_user_by_id(user_id) = Null
           THEN /\ response' = Pair(op, event_id, user_id, Null, 404)
                /\ UNCHANGED pending
           ELSE IF member = Null
           THEN /\ response' = Pair(op, event_id, user_id, Null, 500)
                /\ UNCHANGED pending
           ELSE IF get_participation_row(member, event_id) # Null
           THEN /\ response' = Pair(op, event_id, user_id, Null, 400)
                /\ UNCHANGED pending
           ELSE /\ pending' = [pending EXCEPT ![w] =
                                 [op |-> op, event_id |-> event_id,
                                  user_id |-> user_id, member_id |-> member,
                                  attended |-> Attended(data)]]
                /\ UNCHANGED response

\* the rest of the handler: crud.create_participation commits the INSERT;
\* an IntegrityError is not caught
create_participation_insert(w) ==
    LET op == "create_participation"
        req == pending[w]
        id == seq["participation"] + 1
        row == Participation(req, now)
        members == {participation[i] : i \in {j \in DOMAIN participation :
                        participation[j].event_id = req.event_id}} \cup {row}
    IN  /\ pending[w].op = op
        /\ pending' = [pending EXCEPT ![w] = Idle]
        /\ UNCHANGED <<agreement, company, team, event, location, user,
                       profile, review, page_in>>
        /\ IF ~ParticipationIntegrity(row)
           THEN /\ response' = Pair(op, req.event_id, req.user_id, Null, 500)
                /\ UNCHANGED <<participation, seq, now>>
           ELSE /\ id <= MaxId /\ InTime
                /\ participation' = participation @@ (id :> row)
                /\ seq' = [seq EXCEPT !["participation"] = id]
                /\ Tick
                /\ response' = Pair(op, req.event_id, req.user_id, id,
                                    IF Readable(members) THEN 200 ELSE 500)

\* one location, one team, two users with a profile each and one event;
\* nobody takes part in it yet
RaceInit ==
    /\ agreement = Empty /\ company = Empty
    /\ location = (1 :> Location([name |-> "a"], 1))
    /\ user = [i \in 1..2 |-> User([email |-> SeedNames[i]], 1)]
    /\ team = (1 :> Team([name |-> "a", location_id |-> 1], 1))
    /\ profile = [i \in 1..2 |-> Profile([user_id |-> i, team_id |-> 1], 1)]
    /\ event = (1 :> Event([name |-> "a", team_id |-> 1,
                            organizer_id |-> 1], 1))
    /\ participation = Empty /\ review = Empty
    /\ seq = [agreement |-> 0, company |-> 0, team |-> 1, event |-> 1,
              participation |-> 0, review |-> 0]
    /\ now = 1
    /\ response = NoResponse
    /\ page_in = NoPageIn
    /\ pending = NoPending

\* the requests name the stored event and the stored users
RaceNext ==
    \/ \E w \in Workers, e \in DOMAIN event, u \in DOMAIN user,
          data \in ParticipationCreate :
            create_participation_lookup(w, e, u, data)
    \/ \E w \in Workers : create_participation_insert(w)
    \/ \E e \in DOMAIN event, u \in DOMAIN user,
          data \in ParticipationUpdate :
            update_participation(e, u, data)
    \/ \E e \in DOMAIN event, u \in DOMAIN user, hard \in BOOLEAN :
            remove_user_from_event(e, u, hard)

RaceSpec == RaceInit /\ [][RaceNext]_vars

\* ------------------------ api/routers/auth.py, api/utils/security, users
\* UserStatus (api/models/utils/enums.py): the values of the str enum
UserStatus == {"activo", "inactivo"}

Emails == {"a", "b", "c"}
Passwords == {"p", "q"}

\* pwd_context.hash and pwd_context.verify (bcrypt)
get_password_hash(password) == [scheme |-> "bcrypt", of |-> password]

verify_password(plain_password, hashed_password) ==
    hashed_password = get_password_hash(plain_password)

\* a row of user with the columns the login reads
Account(data, t) ==
    User(data, t) @@ [password |-> get_password_hash(data.password),
                      status |-> data.status]

\* the lifetimes of the tokens, and the minutes in one tick of the clock
ACCESS_TOKEN_EXPIRE_MINUTES == 15
REFRESH_TOKEN_EXPIRE_MINUTES == 60 * 24 * 7
CONFIRMATION_TOKEN_EXPIRE_MINUTES == 60 * 24
RESET_PASSWORD_TOKEN_EXPIRE_MINUTES == 60
TickMinutes == 15

\* jwt._create_token at the clock reading t: the signed claims are the
\* subject and the expiry, and nothing else
create_token(t, sub, expires_delta) ==
    [sub |-> sub, exp |-> t + expires_delta \div TickMinutes]

create_access_token(sub) ==
    create_token(now, sub, ACCESS_TOKEN_EXPIRE_MINUTES)

create_refresh_token(sub) ==
    create_token(now, sub, REFRESH_TOKEN_EXPIRE_MINUTES)

\* the token of each use, as issued for sub at the clock reading t
TokenUses == {"access", "refresh", "confirmation", "reset"}

Lifetime(use) ==
    CASE use = "access" -> ACCESS_TOKEN_EXPIRE_MINUTES
      [] use = "refresh" -> REFRESH_TOKEN_EXPIRE_MINUTES
      [] use = "confirmation" -> CONFIRMATION_TOKEN_EXPIRE_MINUTES
      [] use = "reset" -> RESET_PASSWORD_TOKEN_EXPIRE_MINUTES

IssuedToken(use, sub, t) == create_token(t, sub, Lifetime(use))

\* jwt.decode raises ExpiredSignatureError once the expiry has passed,
\* and otherwise returns the claims of the token
ExpiredSignature(token) == token.exp < now

decode_token(token) == token

\* crud.get_user_by_email: the rows with the email and deleted = false
get_user_by_email(email) ==
    {i \in DOMAIN user : user[i].email = email /\ ~user[i].deleted}

\* authenticate: the user of the email if the password verifies, or None.
\* The module the router imports it from is not part of the source tree;
\* the body is that of api/auth/security/auth.py.
authenticate(email, password) ==
    LET found == get_user_by_email(email)
    IN  IF found = {} THEN Null
        ELSE LET id == CHOOSE i \in found : \A j \in found : i <= j
             IN  IF verify_password(password, user[id].password)
                 THEN id ELSE Null

\* POST /token
login_for_access_token(username, password) ==
    LET op == "login_for_access_token"
        sent == [username |-> username, password |-> password]
        id == authenticate(username, password)
    IN  /\ UNCHANGED <<agreement, company, team, event, location, user,
                       profile, participation, review, seq, now, page_in, pending>>
        /\ response' =
              IF id = Null
              THEN Updated(op, Null, sent, 401)
              ELSE IF user[id].status = "inactive"
              THEN Updated(op, id, sent, 403)
              ELSE [Updated(op, id, sent, 200) EXCEPT
                       !.data = <<create_access_token(user[id].email),
                                  create_refresh_token(user[id].email)>>]

\* the tokens a client can hold: the server issued one for sub at the
\* clock reading iat if a user of that email was stored and not deleted
\* then (POST /token for access and refresh, POST /register for
\* confirmation, POST /request-password-reset for reset)
Issuable(use, sub, iat) ==
    /\ iat <= now
    /\ \E i \in DOMAIN user :
          /\ user[i].email = sub
          /\ user[i].created_at <= iat
          /\ user[i].deleted => iat <= user[i].updated_at
          /\ use = "confirmation" => iat = user[i].created_at

\* POST /refresh-token: the token is decoded with no handler for the
\* error of the decoding (500), and the new pair is issued from its
\* subject alone
refresh_access_token(use, sub, iat) ==
    LET op == "refresh_access_token"
        token == IssuedToken(use, sub, iat)
        sent == [token |-> token, use |-> use, iat |-> iat]
        email == decode_token(token).sub
    IN  /\ Issuable(use, sub, iat)
        /\ UNCHANGED <<agreement, company, team, event, location, user,
                       profile, participation, review, seq, now, page_in,
                       pending>>
        /\ response' =
              IF ExpiredSignature(token)
              THEN Updated(op, Null, sent, 500)
              ELSE [Updated(op, Null, sent, 200) EXCEPT
                       !.data = <<create_access_token(email),
                                  create_refresh_token(email)>>]

\* dependency get_current_user of the protected routes, given the bearer
\* token that was issued for sub, for the use, at the clock reading iat
get_current_user(use, sub, iat) ==
    LET op == "get_current_user"
        token == IssuedToken(use, sub, iat)
        sent == [token |-> token, use |-> use, iat |-> iat]
        payload == decode_token(token)
        found == get_user_by_email(payload.sub)
        id == CHOOSE i \in found : \A j \in found : i <= j
    IN  /\ Issuable(use, sub, iat)
        /\ UNCHANGED <<agreement, company, team, event, location, user,
                       profile, participation, review, seq, now, page_in,
                       pending>>
        /\ response' =
              IF ExpiredSignature(token)
              THEN Updated(op, Null, sent, 401)
              ELSE IF found = {}
              THEN Updated(op, Null, sent, 404)
              ELSE IF user[id].status = "inactive"
              THEN Updated(op, id, sent, 403)
              ELSE Updated(op, id, sent, 200)

\* the column status is an Enum of UserStatus: a row whose stored status
\* is not a member of it raises LookupError whenever it is loaded
Loadable(row) == row.status \in UserStatus \cup {"null"}

\* UserUpdate: status and profile are optional, and of ProfileUpdate the
\* team is the one column of the profile rows here
UserUpdate ==
    {<<>>} \cup {[status |-> st] : st \in UserStatus}
           \cup {[profile |-> [team_id |-> t]] : t \in Ids}
           \cup {[status |-> st, profile |-> <<>>] : st \in UserStatus}

\* PUT /users/{user_id}: crud.update_user reads the row with session.get,
\* deleted or not, and sets the fields of the payload on the user and on
\* user.profile; an absent user, or an absent profile with fields to set,
\* is an AttributeError (500)
update_user(id, data) ==
    LET op == "update_user"
        user_data == [f \in DOMAIN data \ {"profile"} |-> data[f]]
        profile_data == IF "profile" \in DOMAIN data THEN data.profile
                        ELSE <<>>
        member == ProfileOf(id)
    IN  /\ UNCHANGED <<agreement, company, team, event, location,
                       participation, review, seq, page_in, pending>>
        /\ IF id \notin DOMAIN user
              \/ (id \in DOMAIN user /\ ~Loadable(user[id]))
              \/ (member = Null /\ DOMAIN profile_data # {})
           THEN /\ response' = Updated(op, id, data, 500)
                /\ UNCHANGED <<user, profile, now>>
           ELSE LET row == SetAttrs(user[id], user_data, now)
                    prow == IF member = Null THEN Null
                            ELSE SetAttrs(profile[member], profile_data, now)
                IN  IF member # Null /\ prow.team_id \notin DOMAIN team
                    THEN /\ response' = Updated(op, id, data, 500)
                         /\ UNCHANGED <<user, profile, now>>
                    ELSE /\ user' = [user EXCEPT ![id] = row]
                         /\ profile' = IF member = Null THEN profile
                                       ELSE [profile EXCEPT ![member] = prow]
                         /\ IF user' = user /\ profile' = profile
                            THEN UNCHANGED now
                            ELSE InTime /\ Tick
                         /\ response' = Updated(op, id, data, 200)

\* mutant: the profile is left as it is
DeletedProfiles_kept(members, t) == profile

\* crud.delete_user, soft: user.profile.deleted = True, in the commit
\* that marks the user
DeletedProfiles(members, t) ==
    [i \in DOMAIN profile |->
        IF i \in members THEN SoftDeleted(profile[i], t) ELSE profile[i]]

\* DELETE /users/{user_id}?hard=: the user and its profile; the hard
\* delete cascades from the profile to what it organized and attended
delete_user(id, hard) ==
    LET op == "delete_user"
        members == {i \in DOMAIN profile : profile[i].user_id = id}
        events == {i \in DOMAIN event : event[i].organizer_id \in members}
    IN  /\ UNCHANGED <<agreement, company, team, location, seq, page_in,
                       pending>>
        /\ IF get_user_by_id(id) = Null
           THEN /\ response' = [Reply(op, id, 404) EXCEPT !.hard = hard]
                /\ UNCHANGED <<user, profile, event, participation, review,
                               now>>
           ELSE IF ~hard /\ members = {}
           THEN \* user.profile is None
                /\ response' = [Reply(op, id, 500) EXCEPT !.hard = hard]
                /\ UNCHANGED <<user, profile, event, participation, review,
                               now>>
           ELSE /\ InTime
                /\ IF hard
                   THEN /\ user' = Without(user, id)
                        /\ profile' = Rest(profile, members)
                        /\ event' = Rest(event, events)
                        /\ participation' =
                              Rest(participation,
                                   CascadeParticipations(events, members))
                        /\ review' =
                              Rest(review, CascadeReviews(events, members))
                   ELSE /\ user' = [user EXCEPT ![id] = SoftDeleted(user[id], now)]
                        /\ profile' = DeletedProfiles(members, now)
                        /\ UNCHANGED <<event, participation, review>>
                /\ Tick
                /\ response' = [Reply(op, id, 204) EXCEPT !.hard = hard]

\* two registered users with the password "p", each active or inactive,
\* and their profiles in one team
AuthInit ==
    /\ agreement = Empty /\ company = Empty
    /\ event = Empty /\ participation = Empty /\ review = Empty
    /\ location = (1 :> Location([name |-> "a"], 1))
    /\ team = (1 :> Team([name |-> "a", location_id |-> 1], 1))
    /\ \E status \in [1..2 -> UserStatus] :
          user = [i \in 1..2 |->
                    Account([email |-> SeedNames[i], password |-> "p",
                             status |-> status[i]], 1)]
    /\ profile = [i \in 1..2 |-> Profile([user_id |-> i, team_id |-> 1], 1)]
    /\ seq = [agreement |-> 0, company |-> 0, team |-> 1, event |-> 0,
              participation |-> 0, review |-> 0]
    /\ now = 1
    /\ response = NoResponse
    /\ page_in = NoPageIn
    /\ pending = NoPending

AuthNext ==
    \/ \E username \in Emails, password \in Passwords :
            login_for_access_token(username, password)
    \/ \E id \in Ids, hard \in BOOLEAN : delete_user(id, hard)
    \/ \E id \in Ids, data \in UserUpdate : update_user(id, data)
    \/ \E use \in TokenUses, sub \in Emails, iat \in 1..MaxClock + 1 :
            get_current_user(use, sub, iat)
    \/ \E use \in TokenUses, sub \in Emails, iat \in 1..MaxClock + 1 :
            refresh_access_token(use, sub, iat)

AuthSpec == AuthInit /\ [][AuthNext]_vars

\* --------------------------------- GET /agreements, statement by statement
\* The engine is created with the isolation level of the database it is
\* pointed at: a statement reads the rows committed when it runs, or those
\* committed when the transaction of the request ran its first statement
Isolations == {"statement", "transaction"}

\* the list requests followed statement by statement: no skip, at most
\* one clause in the filter and in the sort
ReadRequests ==
    {r \in ListRequests :
        /\ r.skip = 0 /\ r.limit = MaxLimit
        /\ Len(r.filter) <= 1 /\ Len(r.sort) <= 1}

\* one list request at a time is followed statement by statement; the
\* requests that write are served whole between its statements
Reader == 1

\* the table a statement of the request in flight reads
Source(req) == IF req.isolation = "transaction" THEN req.snapshot ELSE agreement

\* crud.list_agreements over the rows the statement reads
read_agreements(table, skip, limit, sort, filter) ==
    LET q == Ordered(Selected(table, filter), sort)
        o == IF skip # 0 THEN Offset(q, skip) ELSE q
    IN  IF limit # 0 THEN Limit(o, limit) ELSE o

\* the handler up to crud.count_agreements
list_agreements_count(w, isolation, r) ==
    LET op == "list_agreements"
        sent == [authorization |-> ""] @@ r
        filter_dict == parse_filter_param(r.filter)
    IN  /\ pending[w] = Idle
        /\ UNCHANGED <<agreement, company, team, event, location, user,
                       profile, participation, review, seq, now, page_in>>
        /\ IF Raised("agreement", r.filter) # ""
           THEN /\ response' = Invalid(op, sent,
                                       Raised("agreement", r.filter), <<>>)
                /\ UNCHANGED pending
           ELSE /\ pending' = [pending EXCEPT ![w] =
                                 [op |-> op, sent |-> sent,
                                  isolation |-> isolation,
                                  snapshot |-> IF isolation = "transaction"
                                               THEN agreement ELSE Empty,
                                  total_records |->
                                      count_agreements(filter_dict)]]
                /\ UNCHANGED response

\* the rest of the handler: the pagination block and crud.list_agreements
list_agreements_page(w) ==
    LET op == "list_agreements"
        req == pending[w]
        sent == req.sent
    IN  /\ pending[w].op = op
        /\ pending' = [pending EXCEPT ![w] = Idle]
        /\ UNCHANGED <<agreement, company, team, event, location, user,
                       profile, participation, review, seq, now, page_in>>
        /\ response' =
              IF Raised("agreement", sent.sort) # ""
              THEN Invalid(op, sent, Raised("agreement", sent.sort),
                           <<"count">>)
              ELSE Page(op, sent,
                        read_agreements(Source(req), sent.skip, sent.limit,
                                        parse_sort_param(sent.sort),
                                        parse_filter_param(sent.filter)),
                        Pagination(sent.skip, sent.limit, req.total_records))

\* one company, no agreement yet
ReadInit ==
    /\ agreement = Empty
    /\ location = (1 :> Location([name |-> "a"], 1))
    /\ company = (1 :> Company([name |-> "a",
                                contact_telephone |-> "3001234567",
                                location_id |-> 1], 1))
    /\ team = Empty /\ event = Empty
    /\ user = Empty /\ profile = Empty /\ participation = Empty /\ review = Empty
    /\ seq = [NoRows EXCEPT !["company"] = 1]
    /\ now = 1
    /\ response = NoResponse
    /\ page_in = NoPageIn
    /\ pending = NoPending

ReadNext ==
    \/ \E isolation \in Isolations, r \in ReadRequests :
            list_agreements_count(Reader, isolation, r)
    \/ list_agreements_page(Reader)
    \/ \E data \in CreateInputs : create_agreement(data)
    \/ \E id \in Ids, hard \in BOOLEAN : delete_agreement(id, hard)

ReadSpec == ReadInit /\ [][ReadNext]_vars

\* ----------------------------------- POST /locations, statement by statement
\* LocationType (api/models/utils/enums.py)
LocationType == {"ciudad", "departamento"}

\* LocationCreate: department_id is optional
LocationCreate ==
    [name : Names, type : LocationType, department_id : Ids \cup {Null}]

\* a row of location with the columns the handler reads
Place(data, t) ==
    Location(data, t) @@ [type |-> data.type,
                          department_id |-> data.department_id]

get_location_by_name(name) ==
    {i \in DOMAIN location : location[i].name = name /\ ~location[i].deleted}

\* mutant: the column name declared unique
LocationIntegrity_unique(row) ==
    /\ UniqueName(location, Null, row.name)
    /\ row.department_id \in DOMAIN location \cup {Null}

\* the INSERT into location: name is indexed, not unique; department_id is
\* a nullable foreign key
LocationIntegrity(row) == row.department_id \in DOMAIN location \cup {Null}

\* the handler up to its decision on the two lookups
create_location_lookup(w, data) ==
    LET op == "create_location"
        department == get_location_by_id(data.department_id)
    IN  /\ pending[w] = Idle
        /\ UNCHANGED <<agreement, company, team, event, location, user,
                       profile, participation, review, seq, now, page_in>>
        /\ IF get_location_by_name(data.name) # {}
           THEN /\ response' = Created(op, Null, data, 409)
                /\ UNCHANGED pending
           ELSE IF department = Null
           THEN /\ response' = Created(op, Null, data, 404)
                /\ UNCHANGED pending
           ELSE IF location[department].type # "departamento"
           THEN /\ response' = Created(op, Null, data, 409)
                /\ UNCHANGED pending
           ELSE /\ pending' = [pending EXCEPT ![w] =
                                 [op |-> op, data |-> data]]
                /\ UNCHANGED response

\* crud.create_location: the INSERT is committed; the seeded department
\* is not counted among the rows inserted
create_location_insert(w) ==
    LET op == "create_location"
        data == pending[w].data
        id == Cardinality(DOMAIN location) + 1
        row == Place(data, now)
    IN  /\ pending[w].op = op
        /\ pending' = [pending EXCEPT ![w] = Idle]
        /\ UNCHANGED <<agreement, company, team, event, user, profile,
                       participation, review, seq, page_in>>
        /\ IF ~LocationIntegrity(row)
           THEN /\ response' = Created(op, Null, data, 500)
                /\ UNCHANGED <<location, now>>
           ELSE /\ id <= MaxId + 1 /\ InTime
                /\ location' = location @@ (id :> row)
                /\ Tick
                /\ response' = Created(op, id, data, 201)

\* one department, the parent of the cities created
PlaceInit ==
    /\ agreement = Empty /\ company = Empty
    /\ location = (1 :> Place([name |-> "a", type |-> "departamento",
                               department_id |-> Null], 1))
    /\ team = Empty /\ event = Empty
    /\ user = Empty /\ profile = Empty /\ participation = Empty /\ review = Empty
    /\ seq = NoRows
    /\ now = 1
    /\ response = NoResponse
    /\ page_in = NoPageIn
    /\ pending = NoPending

PlaceNext ==
    \/ \E w \in Workers, data \in LocationCreate :
            create_location_lookup(w, data)
    \/ \E w \in Workers : create_location_insert(w)

PlaceSpec == PlaceInit /\ [][PlaceNext]_vars

\* ------------------------------------ api/routers/auth.py (activation)
\* UserCreate: email, password, an optional status and the profile, of
\* which the team is the one column of the profile rows here
UserCreate ==
    [email : Emails, password : {"p"}, team_id : Ids]
        \cup [email : Emails, password : {"p"}, team_id : Ids,
              status : UserStatus]

\* crud.create_user validates the dump of the payload, in which an unset
\* status is None: the default of the column is not applied
StatusOf(data) == IF "status" \in DOMAIN data THEN data.status ELSE "null"

\* email is unique over all rows, deleted or not
UserIntegrity(data) ==
    /\ \A i \in DOMAIN user : user[i].email # data.email
    /\ data.team_id \in DOMAIN team

\* POST /register: crud.create_user stores the user and its profile; the
\* confirmation token goes out by email
register_user(data) ==
    LET op == "register_user"
        id == Cardinality(DOMAIN user) + 1
        pid == Cardinality(DOMAIN profile) + 1
        found == get_user_by_email(data.email)
        row == Account([email |-> data.email, password |-> data.password,
                        status |-> StatusOf(data)], now)
    IN  /\ UNCHANGED <<agreement, company, team, event, location,
                       participation, review, seq, page_in, pending>>
        /\ IF \E i \in found : ~Loadable(user[i])
           THEN /\ response' = Created(op, Null, data, 500)
                /\ UNCHANGED <<user, profile, now>>
           ELSE IF found # {}
           THEN /\ response' = Created(op, Null, data, 409)
                /\ UNCHANGED <<user, profile, now>>
           ELSE IF ~UserIntegrity(data)
           THEN /\ response' = Created(op, Null, data, 500)
                /\ UNCHANGED <<user, profile, now>>
           ELSE /\ id <= MaxId /\ InTime
                /\ user' = user @@ (id :> row)
                /\ profile' = profile @@
                      (pid :> Profile([user_id |-> id,
                                       team_id |-> data.team_id], now))
                /\ Tick
                /\ response' = Created(op, id, data, 200)

\* GET /confirm-email/{token}, given the token that was issued for sub,
\* for the use, at the clock reading iat. The decoding has no handler for
\* its error (500). The handler compares the status with "active" and
\* assigns "active", neither of which is a value of UserStatus: the
\* database either refuses the value, or stores it and the refresh of
\* the row raises LookupError; the request is answered 500 either way.
confirm_email(use, sub, iat, stored) ==
    LET op == "confirm_email"
        token == IssuedToken(use, sub, iat)
        sent == [token |-> token, use |-> use, iat |-> iat]
        found == get_user_by_email(decode_token(token).sub)
        id == CHOOSE i \in found : \A j \in found : i <= j
    IN  /\ Issuable(use, sub, iat)
        /\ UNCHANGED <<agreement, company, team, event, location, profile,
                       participation, review, seq, page_in, pending>>
        /\ IF ExpiredSignature(token)
           THEN /\ response' = Updated(op, Null, sent, 500)
                /\ UNCHANGED <<user, now>>
           ELSE IF found = {}
           THEN /\ response' = Updated(op, Null, sent, 404)
                /\ UNCHANGED <<user, now>>
           ELSE IF ~Loadable(user[id])
           THEN /\ response' = Updated(op, id, sent, 500)
                /\ UNCHANGED <<user, now>>
           ELSE IF user[id].status = "active"
           THEN /\ response' = Updated(op, id, sent, 409)
                /\ UNCHANGED <<user, now>>
           ELSE IF stored
           THEN /\ InTime
                /\ user' = [user EXCEPT
                              ![id] = SetAttrs(user[id],
                                               [status |-> "active"], now)]
                /\ Tick
                /\ response' = Updated(op, id, sent, 500)
           ELSE /\ response' = Updated(op, id, sent, 500)
                /\ UNCHANGED <<user, now>>

\* one team and no user yet
ActivationInit ==
    /\ agreement = Empty /\ company = Empty
    /\ event = Empty /\ participation = Empty /\ review = Empty
    /\ user = Empty /\ profile = Empty
    /\ location = (1 :> Location([name |-> "a"], 1))
    /\ team = (1 :> Team([name |-> "a", location_id |-> 1], 1))
    /\ seq = [agreement |-> 0, company |-> 0, team |-> 1, event |-> 0,
              participation |-> 0, review |-> 0]
    /\ now = 1
    /\ response = NoResponse
    /\ page_in = NoPageIn
    /\ pending = NoPending

ActivationNext ==
    \/ \E data \in UserCreate : register_user(data)
    \/ \E use \in TokenUses, sub \in Emails, iat \in 1..MaxClock + 1,
          stored \in BOOLEAN :
            confirm_email(use, sub, iat, stored)
    \/ \E id \in Ids, data \in UserUpdate : update_user(id, data)

ActivationSpec == ActivationInit /\ [][ActivationNext]_vars

\* ------------------------------------- api/routers/events.py (reviews)
\* ReviewCreate: score in 1..5, comment optional
Scores == {1, 5}

ReviewCreate == [score : Scores] \cup [score : Scores, comment : Names]

\* crud.create_review builds Review(author_id, event_id, attended=
\* data.comment, score): the model has no field attended, the keyword is
\* dropped and the column comment keeps its default None
Review(data, author_id, event_id, t) ==
    [score |-> data.score, comment |-> "null", author_id |-> author_id,
     event_id |-> event_id] @@ Base(t)

\* crud.get_review(session, profile_id, event_id): the row with that
\* author and that event; the deleted flag is not part of the query
crud_get_review(profile_id, event_id) ==
    LET R == {i \in DOMAIN review : /\ review[i].author_id = profile_id
                                    /\ review[i].event_id = event_id}
    IN  IF R = {} THEN Null ELSE CHOOSE i \in R : \A j \in R : i <= j

\* serialisation as ReviewRead, which requires member_id: int and
\* comment: str; a row that lacks either fails the validation of the
\* response (500)
ReviewReadable(rows) ==
    \A r \in rows : "member_id" \in DOMAIN r /\ r.comment # "null"

\* POST /events/{event_id}/users/{user_id}/reviews
\* the response is event.reviews, the new row included, as list[ReviewRead]
create_review(event_id, user_id, data) ==
    LET id == seq["review"] + 1
        op == "create_review"
        member == ProfileOf(user_id)
        attendance == get_participation_row(member, event_id)
        row == Review(data, member, event_id, now)
        reviews == {review[i] : i \in {j \in DOMAIN review :
                        review[j].event_id = event_id}} \cup {row}
    IN  /\ UNCHANGED <<team, event, profile, participation, outside_teams>>
        /\ IF get_event_by_id(event_id) = Null \/ get_user_by_id(user_id) = Null
           THEN /\ response' = Pair(op, event_id, user_id, Null, 404)
                /\ UNCHANGED <<review, seq, now>>
           ELSE IF member = Null
           THEN /\ response' = Pair(op, event_id, user_id, Null, 500)
                /\ UNCHANGED <<review, seq, now>>
           ELSE IF attendance = Null
           THEN /\ response' = Pair(op, event_id, user_id, Null, 404)
                /\ UNCHANGED <<review, seq, now>>
           ELSE IF participation[attendance].attended # "true"
           THEN /\ response' = Pair(op, event_id, user_id, Null, 404)
                /\ UNCHANGED <<review, seq, now>>
           ELSE IF crud_get_review(member, event_id) # Null
           THEN /\ response' = Pair(op, event_id, user_id, Null, 400)
                /\ UNCHANGED <<review, seq, now>>
           ELSE /\ id <= MaxId + 1 /\ InTime
                /\ review' = review @@ (id :> row)
                /\ seq' = [seq EXCEPT !["review"] = id]
                /\ Tick
                /\ response' = Pair(op, event_id, user_id, id,
                                    IF ReviewReadable(reviews)
                                    THEN 200 ELSE 500)

\* GET /events/{event_id}/users/{user_id}/reviews
\* the handler dereferences user.profile.id with no check of the user, and
\* calls crud.get_review(session, event_id, user.profile.id)
get_review(event_id, user_id) ==
    LET op == "get_review"
        member == ProfileOf(user_id)
        id == crud_get_review(event_id, member)
    IN  /\ UNCHANGED <<team, event, profile, participation, review, seq, now,
                       outside_teams>>
        /\ response' =
              IF get_user_by_id(user_id) = Null \/ member = Null
              THEN Pair(op, event_id, user_id, Null, 500)
              ELSE IF id = Null
              THEN Pair(op, event_id, user_id, Null, 404)
              ELSE Pair(op, event_id, user_id, id,
                        IF ReviewReadable({review[id]}) THEN 200 ELSE 500)

\* DELETE /events/{event_id}/users/{user_id}/reviews?hard=
\* calls crud.get_review(session, event_id, user.profile.id)
delete_review(event_id, user_id, hard) ==
    LET op == "delete_review"
        member == ProfileOf(user_id)
        id == crud_get_review(event_id, member)
    IN  /\ UNCHANGED <<team, event, profile, participation, seq,
                       outside_teams>>
        /\ IF get_event_by_id(event_id) = Null \/ get_user_by_id(user_id) = Null
           THEN /\ response' = [Pair(op, event_id, user_id, Null, 404)
                                  EXCEPT !.hard = hard]
                /\ UNCHANGED <<review, now>>
           ELSE IF member = Null
           THEN /\ response' = [Pair(op, event_id, user_id, Null, 500)
                                  EXCEPT !.hard = hard]
                /\ UNCHANGED <<review, now>>
           ELSE IF id = Null
           THEN /\ response' = [Pair(op, event_id, user_id, Null, 404)
                                  EXCEPT !.hard = hard]
                /\ UNCHANGED <<review, now>>
           ELSE /\ InTime
                /\ review' = IF hard THEN Without(review, id)
                             ELSE [review EXCEPT
                                     ![id] = SoftDeleted(review[id], now)]
                /\ Tick
                /\ response' = [Pair(op, event_id, user_id, id, 204)
                                  EXCEPT !.hard = hard]

\* two events of one team, two users with their profiles, and who
\* attended which event
ReviewInit ==
    /\ agreement = Empty /\ company = Empty /\ review = Empty
    /\ location = (1 :> Location([name |-> "a"], 1))
    /\ team = (1 :> Team([name |-> "a", location_id |-> 1], 1))
    /\ user = [i \in 1..2 |-> User([email |-> SeedNames[i]], 1)]
    /\ profile = [i \in 1..2 |-> Profile([user_id |-> i, team_id |-> 1], 1)]
    /\ event = [i \in 1..2 |->
                  Event([name |-> SeedNames[i], team_id |-> 1,
                         organizer_id |-> 1], 1)]
    /\ \E attended \in [1..3 -> {"true", "false"}] :
          participation =
              [i \in 1..3 |->
                  Participation([attended |-> attended[i],
                                 member_id |-> IF i = 3 THEN 1 ELSE i,
                                 event_id |-> IF i = 3 THEN 2 ELSE 1], 1)]
    /\ seq = [agreement |-> 0, company |-> 0, team |-> 1, event |-> 2,
              participation |-> 3, review |-> 0]
    /\ now = 1
    /\ response = NoResponse
    /\ page_in = NoPageIn
    /\ pending = NoPending

ReviewNext ==
    \/ \E e \in Ids, u \in Ids, data \in ReviewCreate :
            create_review(e, u, data)
    \/ \E e \in Ids, u \in Ids : get_review(e, u)
    \/ \E e \in Ids, u \in Ids, hard \in BOOLEAN : delete_review(e, u, hard)

ReviewSpec == ReviewInit /\ [][ReviewNext]_vars

\* ================================================================ claims
AgreementOps == {"create_agreement", "get_agreement", "update_agreement",
                 "delete_agreement", "list_agreements"}
CompanyOps == {"create_company", "get_company", "update_company",
               "delete_company", "list_companies"}
TeamOps == {"create_team", "get_team", "update_team", "delete_team"}
ParticipationOps == {"create_participation", "get_participation",
                     "update_participation", "remove_user_from_event"}
GetOps == {"get_agreement", "get_company", "get_team", "get_event"}
UpdateOps == {"update_agreement", "update_company", "update_team",
              "update_event", "update_participation"}
DeleteOps == {"delete_agreement", "delete_company", "delete_team",
              "delete_event", "remove_user_from_event"}
ListOps == {"list_agreements", "list_companies"}

\* the table an exchange addresses, before and after the step
Target(r) ==
    CASE r.op \in AgreementOps -> agreement
      [] r.op \in CompanyOps -> company
      [] r.op \in TeamOps -> team
      [] r.op \in ParticipationOps -> participation
      [] OTHER -> event

TargetAfter(r) ==
    CASE r.op \in AgreementOps -> agreement'
      [] r.op \in CompanyOps -> company'
      [] r.op \in TeamOps -> team'
      [] r.op \in ParticipationOps -> participation'
      [] OTHER -> event'

IsActive(table, id) == id \in DOMAIN table /\ ~table[id].deleted

\* C1: a get by id answers 200 exactly when a row with that id is stored
\* with deleted = false, and 404 otherwise (in particular for a row that is
\* stored with deleted = true)
C1_GetById ==
    response.op \in GetOps =>
        IF IsActive(Target(response), response.id)
        THEN response.status = 200 ELSE response.status = 404

C1_Witness ==
    /\ response.op = "get_agreement" /\ response.status = 404
    /\ response.id \in DOMAIN agreement /\ agreement[response.id].deleted

\* C2: after a soft delete answered 204 the row is stored with
\* deleted = true and a non-null deleted_at
C2_SoftDeleteStamps ==
    (response.op \in DeleteOps /\ response.status = 204 /\ ~response.hard) =>
        LET t == Target(response)
        IN  /\ response.id \in DOMAIN t
            /\ t[response.id].deleted
            /\ t[response.id].deleted_at # Null

\* C3: after a hard delete answered 204 no row with that id is stored
C3_HardDeletePurges ==
    (response.op \in DeleteOps /\ response.status = 204 /\ response.hard) =>
        response.id \notin DOMAIN Target(response)

C3_Witness ==
    /\ response.op = "delete_agreement" /\ response.status = 204
    /\ response.hard /\ response.id <= seq["agreement"]
    /\ response.id \notin DOMAIN agreement

StaysDeleted(t, after) ==
    \A i \in DOMAIN t : t[i].deleted => i \in DOMAIN after /\ after[i].deleted

\* C4: a row with deleted = true is still stored with deleted = true after
\* every step: no operation reverts it to active and none removes it
C4_DeletedTerminal ==
    [][ /\ StaysDeleted(agreement, agreement')
        /\ StaysDeleted(company, company')
        /\ StaysDeleted(team, team')
        /\ StaysDeleted(event, event')
        /\ StaysDeleted(participation, participation') ]_vars

Store ==
    <<agreement, company, team, event, location, user, profile, participation>>

\* C5: an update of an id that does not resolve to an active row answers
\* not found (or is refused by validation before the lookup) and leaves
\* the store unchanged
C5_UpdateNotFound ==
    [][ (response'.op \in UpdateOps
         /\ ~IsActive(Target(response'), response'.id)) =>
            response'.status \in {404, 422} /\ Store' = Store ]_vars

\* C6: a successful update changes, in the target row, only fields of the
\* payload (and updated_at), and changes no other row
C6_PartialUpdate ==
    [][ (response'.op \in UpdateOps /\ response'.status = 200) =>
          LET id == response'.id
              t == Target(response')
              after == TargetAfter(response')
          IN  /\ DOMAIN after = DOMAIN t
              /\ \A i \in DOMAIN t \ {id} : after[i] = t[i]
              /\ \A f \in DOMAIN t[id] \ (DOMAIN response'.sent \cup {"updated_at"}) :
                    after[id][f] = t[id][f]
              /\ response'.op # "update_agreement" => agreement' = agreement
              /\ response'.op # "update_company" => company' = company
              /\ response'.op # "update_team" => team' = team
              /\ response'.op # "update_event" => event' = event
              /\ response'.op # "update_participation" =>
                    participation' = participation
              /\ location' = location /\ user' = user
              /\ profile' = profile ]_vars

\* the filter asks for deleted = true
AsksDeleted(filter) ==
    \E k \in 1..Len(filter) :
        /\ filter[k].field = "deleted" /\ filter[k].eq
        /\ Lower(filter[k].value) = "true"

\* C7: a list response holds only rows with deleted = false and counts no
\* others, whatever the filter; a filter deleted=true selects nothing
C7_ListExcludesDeleted ==
    (response.op \in ListOps /\ response.status = 200) =>
        LET t == Target(response)
        IN  /\ \A k \in 1..Len(response.data) : IsActive(t, response.data[k])
            /\ response.pagination.total_records
                  <= Cardinality({i \in DOMAIN t : ~t[i].deleted})
            /\ AsksDeleted(response.sent.filter) =>
                  /\ response.data = <<>>
                  /\ response.pagination.total_records = 0

C7_Witness ==
    /\ response.op = "list_agreements" /\ response.status = 200
    /\ AsksDeleted(response.sent.filter)
    /\ \E i \in DOMAIN agreement : agreement[i].deleted

\* reference quotients, by their defining inequalities
FloorDiv(a, b) == CHOOSE q \in 0..a : q * b <= a /\ a < (q + 1) * b
CeilDiv(a, b) == CHOOSE q \in 0..a : q * b >= a /\ (q = 0 \/ (q - 1) * b < a)

\* C8: the pagination block equals the reference calculator, with
\* limit = 0 giving one page
C8_Pagination ==
    response.op = "paginate" =>
        LET p == response.pagination
            skip == page_in.skip
            limit == page_in.limit
            n == page_in.total_records
        IN  /\ p.total_records = n /\ p.per_page = limit
            /\ limit > 0 => /\ p.current_page = FloorDiv(skip, limit) + 1
                            /\ p.total_pages = CeilDiv(n, limit)
            /\ limit = 0 => p.current_page = 1 /\ p.total_pages = 1
            /\ p.next_page = IF p.current_page < p.total_pages
                             THEN p.current_page + 1 ELSE Null
            /\ p.prev_page = IF p.current_page > 1
                             THEN p.current_page - 1 ELSE Null

C8_Witness ==
    /\ response.op = "paginate" /\ page_in.limit > 0
    /\ response.pagination.next_page # Null
    /\ response.pagination.prev_page # Null

\* C9 as stated: with limit > 0, next_page is null exactly when
\* current_page = total_pages
C9_NextNullIffLastPage ==
    (response.op = "paginate" /\ page_in.limit > 0) =>
        ( response.pagination.next_page = Null
          <=> response.pagination.current_page = response.pagination.total_pages )

\* C9 amended: with limit > 0, next_page is null exactly when
\* current_page >= total_pages, which is current_page = total_pages
\* whenever skip < total_records
C9_NextNullIffNoLaterPage ==
    (response.op = "paginate" /\ page_in.limit > 0) =>
        LET p == response.pagination
        IN  /\ p.next_page = Null <=> p.current_page >= p.total_pages
            /\ page_in.skip < page_in.total_records =>
                  (p.next_page = Null <=> p.current_page = p.total_pages)

C9_Witness ==
    /\ response.op = "paginate" /\ page_in.limit > 0
    /\ response.pagination.next_page = Null
    /\ response.pagination.current_page > response.pagination.total_pages

\* C10: a list request with limit = 0 returns every selected row after the
\* first skip ones, and reports one page
C10_LimitZeroIsNoLimit ==
    (response.op \in ListOps /\ response.status = 200
     /\ response.sent.limit = 0) =>
        LET n == response.pagination.total_records
            skip == response.sent.skip
        IN  /\ Len(response.data) = IF n > skip THEN n - skip ELSE 0
            /\ response.pagination.total_pages = 1
\* the model a list request addresses
Model(r) == IF r.op = "list_agreements" THEN "agreement" ELSE "company"

\* the fields of a query parameter that are not attributes of the model
Unknown(r, query) == Fields(query) \ Columns(Model(r))

\* C11: a list request whose filter names a field that is not an attribute
\* of the model is answered 400, the error names such a field of the
\* filter, and neither the count nor the list statement was executed
C11_UnknownFilterField ==
    (response.op \in ListOps /\ response.status # 0
     /\ Unknown(response, response.sent.filter) # {}) =>
        /\ response.status = 400
        /\ response.detail \in Unknown(response, response.sent.filter)
        /\ response.queries = <<>>
        /\ response.data = <<>>

C11_Witness ==
    /\ response.op = "list_companies" /\ response.status = 400
    /\ response.sent.filter = <<Clause("bogus_field", "1")>>
    /\ response.detail = "bogus_field"
    /\ company # Empty

\* C12: a list request whose sort names a field that is not an attribute of
\* the model is answered 400, the error names such a field of the sort, and
\* neither the count nor the list statement was executed
C12_UnknownSortField ==
    (response.op \in ListOps /\ response.status # 0
     /\ Unknown(response, response.sent.sort) # {}) =>
        /\ response.status = 400
        /\ response.detail \in
              Unknown(response, response.sent.sort)
                 \cup Unknown(response, response.sent.filter)
        /\ response.queries = <<>>
        /\ response.data = <<>>

CreateOps == {"create_agreement", "create_company"}

\* the payload passes the schema and its foreign key names a stored row
ValidCreate(r) ==
    CASE r.op = "create_agreement" ->
            check_start_end_dates(r.sent) /\ r.sent.company_id \in DOMAIN company
      [] r.op = "create_company" ->
            /\ IsMobile(Digits(r.sent.contact_telephone))
            /\ r.sent.location_id \in DOMAIN location
      [] OTHER -> FALSE

\* an active row of the table addressed carries the name sent
NameTaken(r) ==
    \E i \in DOMAIN Target(r) :
        ~Target(r)[i].deleted /\ Target(r)[i].name = r.sent.name

\* C13: a create whose name is that of an active row of the same entity is
\* answered 409 and leaves the store as it was; every other create with a
\* valid payload is answered 201 and its row is stored
C13_CreateConflict ==
    [][ (response'.op \in CreateOps /\ ValidCreate(response')) =>
            IF NameTaken(response')
            THEN response'.status = 409 /\ Store' = Store
            ELSE /\ response'.status = 201
                 /\ response'.id \in DOMAIN TargetAfter(response') \ DOMAIN Target(response')
                 /\ TargetAfter(response')[response'.id].name = response'.sent.name
      ]_vars

Decodes(authorization) == authorization = "Bearer signed"

\* C15: GET /agreements without a valid bearer token is answered 401 and
\* carries no agreement data
C15_ListNeedsToken ==
    (response.op = "list_agreements"
     /\ ~Decodes(response.sent.authorization)) =>
        response.status = 401 /\ response.data = <<>>

\* the payload passes the validator of its schema
PassesSchema(r) ==
    CASE r.op = "create_agreement" -> check_start_end_dates(r.sent)
      [] r.op = "create_company" -> IsMobile(Digits(r.sent.contact_telephone))
      [] OTHER -> FALSE

\* the row the foreign key of the payload names is stored with
\* deleted = false
ReferenceActive(r) ==
    CASE r.op = "create_agreement" -> IsActive(company, r.sent.company_id)
      [] r.op = "create_company" -> IsActive(location, r.sent.location_id)
      [] OTHER -> FALSE

\* C16: a create whose foreign key does not name an active row is answered
\* 404 and stores nothing (the payload being otherwise acceptable: it
\* passes its schema and its name is free)
C16_CreateChecksReferences ==
    [][ (response'.op \in CreateOps /\ PassesSchema(response')
         /\ ~NameTaken(response') /\ ~ReferenceActive(response')) =>
            response'.status = 404 /\ Store' = Store
      ]_vars

\* C16, second half: no agreement is answered 201 whose company had been
\* soft-deleted before the agreement was created
C16_CreatedOnDeleted ==
    ~ ( /\ response.op = "create_agreement" /\ response.status = 201
        /\ response.sent.company_id \in DOMAIN company
        /\ company[response.sent.company_id].deleted
        /\ company[response.sent.company_id].updated_at
              < agreement[response.id].created_at )

\* C17: in every reachable state, requests interleaved as they may, no two
\* rows of participation carry the same (member_id, event_id)
C17_OneParticipationPerPair ==
    \A i, j \in DOMAIN participation :
        (/\ participation[i].member_id = participation[j].member_id
         /\ participation[i].event_id = participation[j].event_id) => i = j

\* two requests passed the lookup for the same pair; the INSERT of the
\* second was refused, the row of the first is stored
C17_Witness ==
    /\ response.op = "create_participation" /\ response.status = 500
    /\ response.id = Null
    /\ get_participation_row(ProfileOf(response.sent.user_id),
                             response.sent.event_id) # Null

\* C18: a soft delete of a row that is already stored with deleted = true
\* is answered 404 and leaves every table as it was: the row is still
\* stored, deleted = true, its timestamps as the first call left them
C18_SoftDeleteIdempotent ==
    [][ (/\ response'.op \in {"delete_agreement", "delete_company"}
         /\ ~response'.hard
         /\ response'.id \in DOMAIN Target(response')
         /\ Target(response')[response'.id].deleted) =>
            /\ response'.status = 404
            /\ Store' = Store
            /\ TargetAfter(response')[response'.id].deleted
      ]_vars

\* the second soft delete of agreement 1, after the first was answered 204
C18_Witness ==
    /\ response.op = "delete_agreement" /\ ~response.hard
    /\ response.status = 404
    /\ response.id \in DOMAIN agreement
    /\ agreement[response.id].deleted
    /\ agreement[response.id].updated_at > agreement[response.id].created_at

\* the credentials sent name a stored user with deleted = false whose
\* password they carry
Authenticates(r) ==
    \E i \in DOMAIN user :
        /\ ~user[i].deleted /\ user[i].email = r.sent.username
        /\ verify_password(r.sent.password, user[i].password)

\* ... and that user is inactive (UserStatus.INACTIVE)
Inactive(r) ==
    \E i \in DOMAIN user :
        /\ ~user[i].deleted /\ user[i].email = r.sent.username
        /\ user[i].status = "inactivo"

\* C19: POST /token answers with a token pair exactly when the credentials
\* authenticate a user that is not inactive; credentials that do not
\* authenticate are answered 401, an inactive account 403, both with no
\* token
C19_TokenIffEntitled ==
    response.op = "login_for_access_token" =>
        /\ response.data # <<>> <=> (Authenticates(response) /\ ~Inactive(response))
        /\ ~Authenticates(response) => response.status = 401
        /\ (Authenticates(response) /\ Inactive(response)) =>
                response.status = 403

\* C20: when a list request is answered with a page, total_records is the
\* number of rows with deleted = false that satisfy the filter in the
\* table the page was read from, whatever other requests committed while
\* the request was served
C20_TotalMatchesPage ==
    [][ \A w \in Workers :
          (/\ pending[w].op = "list_agreements" /\ pending'[w] = Idle
           /\ response'.status = 200) =>
              response'.pagination.total_records =
                  Cardinality(Selected(Source(pending[w]),
                                       parse_filter_param(pending[w].sent.filter)))
      ]_vars

\* C21: after a hard delete of a team answered 204, no profile and no
\* event is stored whose team_id is the id of that team
C21_TeamCascade ==
    (response.op = "delete_team" /\ response.status = 204 /\ response.hard) =>
        /\ \A i \in DOMAIN profile : profile[i].team_id # response.id
        /\ \A i \in DOMAIN event : event[i].team_id # response.id

\* the team deleted had a member and an event: a user is left without
\* profile and an id handed out to an event names no row
C21_Witness ==
    /\ response.op = "delete_team" /\ response.status = 204 /\ response.hard
    /\ response.id \notin DOMAIN team
    /\ \E u \in DOMAIN user : ProfileOf(u) = Null
    /\ \E i \in 1..seq["event"] : i \notin DOMAIN event

\* C22: the agreements answered by GET /companies/{id}/agreements are
\* stored with deleted = false
C22_SubResourceExcludesDeleted ==
    (response.op = "get_company_agreements" /\ response.status = 200) =>
        \A k \in 1..Len(response.data) : IsActive(agreement, response.data[k])

\* the rows with deleted = false that satisfy each clause of the filter
\* string, every clause taken on its own
SatisfyAll(t, filter) ==
    {i \in DOMAIN t :
        /\ ~t[i].deleted
        /\ \A k \in 1..Len(filter) :
              Where(t[i], filter[k].field,
                    parse_filter_param(<<filter[k]>>)[filter[k].field])}

\* C23: a list request with a filter of known fields is answered with the
\* rows that satisfy every clause of the filter, and counts them, also
\* when a field occurs in more than one clause
C23_FilterConjunction ==
    (response.op \in ListOps /\ response.status = 200) =>
        LET S == SatisfyAll(Target(response), response.sent.filter)
        IN  /\ response.pagination.total_records = Cardinality(S)
            /\ \A k \in 1..Len(response.data) : response.data[k] \in S

\* C24: every stored agreement has start_date <= end_date
C24_DatesOrdered ==
    \A i \in DOMAIN agreement : agreement[i].start_date <= agreement[i].end_date

\* C25: nothing but the lookup of the router stands between a request and
\* its INSERT: a POST /locations that has passed the lookup stores its row
\* and is answered 201, also when another request has stored an active
\* location of the same name in the meantime
C25_InsertUnguarded ==
    [][ \A w \in Workers :
          (pending[w].op = "create_location" /\ pending'[w] = Idle) =>
              /\ response'.status = 201
              /\ response'.id \in DOMAIN location' \ DOMAIN location
              /\ location'[response'.id].name = pending[w].data.name
      ]_vars

\* two active locations of one name
C25_Witness ==
    \E i, j \in DOMAIN location :
        /\ i # j /\ location[i].name = location[j].name
        /\ ~location[i].deleted /\ ~location[j].deleted

\* C26: round trip of a review. Once the review of user u (author = u's
\* profile) for event e is stored by POST /events/{e}/users/{u}/reviews,
\* the stored row has that author and that event, a GET of the same path
\* answers 200 with that review, and a DELETE of the same path deletes
\* that review and no other.
ReviewOps == {"create_review", "get_review", "delete_review"}

C26_Lookup ==
    (response.op \in {"get_review", "delete_review"} /\ response.id # Null) =>
        /\ response.id \in DOMAIN review =>
              /\ review[response.id].author_id = ProfileOf(response.sent.user_id)
              /\ review[response.id].event_id = response.sent.event_id

\* C27: get_current_user accepts a bearer token only if it was issued as
\* an access token, and never one issued longer ago than the lifetime of
\* an access token.
C27_OnlyAccessTokens ==
    (response.op = "get_current_user" /\ response.status = 200) =>
        /\ response.sent.use = "access"
        /\ (now - response.sent.iat) * TickMinutes
              <= ACCESS_TOKEN_EXPIRE_MINUTES

\* the email a token pair was asked for: the username of the login form,
\* the subject of the token of a refresh
AskedFor(r) ==
    IF r.op = "login_for_access_token" THEN r.sent.username
    ELSE r.sent.token.sub

\* C28: POST /token and POST /refresh-token return a token pair only for
\* the email of a stored user that is neither deleted nor inactive when the
\* request is served.
C28_NoTokenForDeletedOrInactive ==
    ( /\ response.op \in {"login_for_access_token", "refresh_access_token"}
      /\ response.data # <<>> ) =>
        \E i \in DOMAIN user :
            /\ user[i].email = AskedFor(response)
            /\ ~user[i].deleted
            /\ user[i].status # "inactivo"

\* C28, the refresh alone, for a user that was active and is soft-deleted
C28_NoRefreshForDeleted ==
    ( /\ response.op = "refresh_access_token"
      /\ response.data # <<>> ) =>
        \E i \in DOMAIN user :
            user[i].email = AskedFor(response) /\ ~user[i].deleted

\* C29: in every state, a user and its profile have the same deleted
\* flag.
C29_SharedDeletedFlag ==
    \A i \in DOMAIN profile :
        profile[i].user_id \in DOMAIN user =>
            profile[i].deleted = user[profile[i].user_id].deleted

\* a user was soft-deleted, and it and its profile were updated after that
C29_Witness ==
    /\ response.op = "update_user" /\ response.status = 200
    /\ response.id \in DOMAIN user /\ user[response.id].deleted
    /\ \E i \in DOMAIN profile :
          /\ profile[i].user_id = response.id /\ profile[i].deleted
          /\ profile[i].updated_at > profile[i].created_at
          /\ user[response.id].status \in UserStatus

\* C30: a user is registered inactive, only GET /confirm-email moves a
\* user from a status other than active to active, and the confirmation
\* of a user that is active is answered 409 and changes nothing.
C30_ActivationByConfirmation ==
    [][ /\ \A i \in DOMAIN user' \ DOMAIN user :
              user'[i].status = "inactivo"
        /\ \A i \in DOMAIN user' \cap DOMAIN user :
              (user[i].status # "activo" /\ user'[i].status = "activo") =>
                  response'.op = "confirm_email"
        /\ \A i \in DOMAIN user :
              ( /\ response'.op = "confirm_email"
                /\ user[i].email = response'.sent.token.sub
                /\ ~user[i].deleted /\ user[i].status = "activo"
                /\ ~ExpiredSignature(response'.sent.token) ) =>
                  response'.status = 409 /\ user' = user
      ]_vars

\* C30, one part: a status other than active becomes active in no step
\* but one of GET /confirm-email
C30_NoOtherActivation ==
    [][ \A i \in DOMAIN user' \cap DOMAIN user :
            (user[i].status # "activo" /\ user'[i].status = "activo") =>
                response'.op = "confirm_email" ]_vars

====
